---------------------------- MODULE Spec2Model ----------------------------
(***************************************************************************)
(* A model of the SmoothScrub text-diagram engine (class SmoothScrub).     *)
(*                                                                         *)
(* Text is modelled grapheme by grapheme: a line is a sequence of          *)
(* graphemes, a grapheme is a one-character string, and a box-drawing      *)
(* glyph is written by its code point ("U2500" is the glyph U+2500).  A    *)
(* document is the sequence of its lines, as ascii.split('\n') yields it.  *)
(* Pixel quantities are kept in tenths of an SVG unit, so that             *)
(* 0.8 * cellWidth and 0.7 * cellHeight stay integers.                     *)
(***************************************************************************)
EXTENDS Integers, Sequences, FiniteSets, TLC

VARIABLES
    pc,         \* the operation applied last: "input" before any
    text,       \* the document handed to the engine: a sequence of raw lines
    value,      \* the colour value handed to isSafeColorValue
    safe,       \* the verdict of isSafeColorValue(value)
    parsed,     \* parseLineMarkers of every line of text
    reparsed,   \* parseLineMarkers of every cleanLine of parsed
    injected,   \* parseLineMarkers(injectMarkersIntoLine(cleanLine, markers))
    svg,        \* what render(text) returns: path commands, rects, text nodes
    formatted,  \* the lines of autoFormat(text)
    document,   \* whether the environment has a DOM document
    cursor,     \* the cell handed to findVerticalNeighbor or to
                \* findSmallestEnclosingBox: <<row, col>>
    neighbor,   \* what findVerticalNeighbor returned: a column, -1 for null
    foundRuns,  \* what detectVerticalRuns returned
    foundBoxes, \* what detectRectangularBoxes returned
    enclosingBox \* what findSmallestEnclosingBox returned: the 1-based
                \* position of a box in foundBoxes, 0 for null

vars == <<pc, text, value, safe, parsed, reparsed, injected, svg, formatted, document,
          cursor, neighbor, foundRuns, foundBoxes, enclosingBox>>

--------------------------------------------------------------------------
(* Sequences of graphemes.                                                 *)

Min(a, b) == IF a < b THEN a ELSE b
Max(a, b) == IF a > b THEN a ELSE b
Abs(a) == IF a < 0 THEN 0 - a ELSE a

\* text.slice(from, to) with 1-based inclusive bounds; empty when from > to.
Slice(s, from, to) == IF from > to THEN <<>> ELSE SubSeq(s, from, to)

RECURSIVE Flatten(_)
Flatten(ss) == IF ss = <<>> THEN <<>> ELSE Head(ss) \o Flatten(Tail(ss))

\* The JavaScript string a grapheme sequence stands for.
RECURSIVE Join(_)
Join(s) == IF s = <<>> THEN "" ELSE Head(s) \o Join(Tail(s))

\* ' '.repeat(n)
RECURSIVE Repeat(_, _)
Repeat(c, n) == IF n <= 0 THEN <<>> ELSE <<c>> \o Repeat(c, n - 1)

\* All sequences over S of length 0..n.
SeqsUpTo(S, n) == UNION {[1..k -> S] : k \in 0..n}

--------------------------------------------------------------------------
(* Character classes.                                                      *)

LowerLetters ==
    {"a","b","c","d","e","f","g","h","i","j","k","l","m",
     "n","o","p","q","r","s","t","u","v","w","x","y","z"}
UpperLetters ==
    {"A","B","C","D","E","F","G","H","I","J","K","L","M",
     "N","O","P","Q","R","S","T","U","V","W","X","Y","Z"}
Digits == {"0","1","2","3","4","5","6","7","8","9"}

LowerOf ==
    [c \in UpperLetters |->
        CASE c = "A" -> "a" [] c = "B" -> "b" [] c = "C" -> "c" [] c = "D" -> "d"
          [] c = "E" -> "e" [] c = "F" -> "f" [] c = "G" -> "g" [] c = "H" -> "h"
          [] c = "I" -> "i" [] c = "J" -> "j" [] c = "K" -> "k" [] c = "L" -> "l"
          [] c = "M" -> "m" [] c = "N" -> "n" [] c = "O" -> "o" [] c = "P" -> "p"
          [] c = "Q" -> "q" [] c = "R" -> "r" [] c = "S" -> "s" [] c = "T" -> "t"
          [] c = "U" -> "u" [] c = "V" -> "v" [] c = "W" -> "w" [] c = "X" -> "x"
          [] c = "Y" -> "y" [] c = "Z" -> "z"]

\* String.prototype.toLowerCase, grapheme by grapheme.
ToLowerCase(s) == [i \in 1..Len(s) |-> IF s[i] \in UpperLetters THEN LowerOf[s[i]] ELSE s[i]]

\* /[a-zA-Z]/
IsLetter(c) == c \in LowerLetters \cup UpperLetters
\* /[0-9a-f]/i
IsHexDigit(c) == c \in Digits \cup {"a","b","c","d","e","f","A","B","C","D","E","F"}
\* /\s/ over the graphemes of the model
IsSpace(c) == c \in {" ", "\t", "\r"}

\* String.prototype.trimStart / trimEnd / trim
RECURSIVE TrimStart(_)
TrimStart(s) == IF s # <<>> /\ IsSpace(Head(s)) THEN TrimStart(Tail(s)) ELSE s
RECURSIVE TrimEnd(_)
TrimEnd(s) ==
    IF s # <<>> /\ IsSpace(s[Len(s)]) THEN TrimEnd(SubSeq(s, 1, Len(s) - 1)) ELSE s
Trim(s) == TrimEnd(TrimStart(s))

\* s.includes(sub) for a grapheme sequence sub
Includes(s, sub) ==
    \E i \in 1..(Len(s) - Len(sub) + 1) : SubSeq(s, i, i + Len(sub) - 1) = sub

--------------------------------------------------------------------------
(* Colour values.                                                          *)

CSS_NAMED_COLORS ==
    {"aliceblue", "antiquewhite", "aqua", "aquamarine", "azure", "beige",
     "bisque", "black", "blanchedalmond", "blue", "blueviolet", "brown",
     "burlywood", "cadetblue", "chartreuse", "chocolate", "coral",
     "cornflowerblue", "cornsilk", "crimson", "cyan", "darkblue", "darkcyan",
     "darkgoldenrod", "darkgray", "darkgreen", "darkgrey", "darkkhaki",
     "darkmagenta", "darkolivegreen", "darkorange", "darkorchid", "darkred",
     "darksalmon", "darkseagreen", "darkslateblue", "darkslategray",
     "darkslategrey", "darkturquoise", "darkviolet", "deeppink",
     "deepskyblue", "dimgray", "dimgrey", "dodgerblue", "firebrick",
     "floralwhite", "forestgreen", "fuchsia", "gainsboro", "ghostwhite",
     "gold", "goldenrod", "gray", "green", "greenyellow", "grey", "honeydew",
     "hotpink", "indianred", "indigo", "ivory", "khaki", "lavender",
     "lavenderblush", "lawngreen", "lemonchiffon", "lightblue", "lightcoral",
     "lightcyan", "lightgoldenrodyellow", "lightgray", "lightgreen",
     "lightgrey", "lightpink", "lightsalmon", "lightseagreen", "lightskyblue",
     "lightslategray", "lightslategrey", "lightsteelblue", "lightyellow",
     "lime", "limegreen", "linen", "magenta", "maroon", "mediumaquamarine",
     "mediumblue", "mediumorchid", "mediumpurple", "mediumseagreen",
     "mediumslateblue", "mediumspringgreen", "mediumturquoise",
     "mediumvioletred", "midnightblue", "mintcream", "mistyrose", "moccasin",
     "navajowhite", "navy", "oldlace", "olive", "olivedrab", "orange",
     "orangered", "orchid", "palegoldenrod", "palegreen", "paleturquoise",
     "palevioletred", "papayawhip", "peachpuff", "peru", "pink", "plum",
     "powderblue", "purple", "rebeccapurple", "red", "rosybrown", "royalblue",
     "saddlebrown", "salmon", "sandybrown", "seagreen", "seashell", "sienna",
     "silver", "skyblue", "slateblue", "slategray", "slategrey", "snow",
     "springgreen", "steelblue", "tan", "teal", "thistle", "tomato",
     "turquoise", "violet", "wheat", "white", "whitesmoke", "yellow",
     "yellowgreen"}

\* /url\s*\(/i
HasUrlCall(s) ==
    \E i \in 1..Len(s), j \in 1..Len(s) :
        /\ i + 3 <= j
        /\ ToLowerCase(SubSeq(s, i, i + 2)) = <<"u", "r", "l">>
        /\ \A k \in (i + 3)..(j - 1) : IsSpace(s[k])
        /\ s[j] = "("

\* /[();{}]/
HasUnsafeChar(s) == \E i \in 1..Len(s) : s[i] \in {"(", ")", ";", "{", "}"}

\* /^#[0-9a-f]{n}$/i
IsHexColor(s, n) ==
    /\ Len(s) = n + 1
    /\ s[1] = "#"
    /\ \A i \in 2..Len(s) : IsHexDigit(s[i])

\* /^[a-z]+$/i
IsAlphabetic(s) == s # <<>> /\ \A i \in 1..Len(s) : IsLetter(s[i])

\* A check that only refuses the empty value.
isSafeColorValueNonEmpty(v) == Trim(v) # <<>>

isSafeColorValueNoFold(v) ==
    LET trimmed == Trim(v) IN
    IF trimmed = <<>> THEN FALSE
    ELSE IF HasUrlCall(trimmed) THEN FALSE
    ELSE IF HasUnsafeChar(trimmed) THEN FALSE
    ELSE IF IsHexColor(trimmed, 3) THEN TRUE
    ELSE IF IsHexColor(trimmed, 6) THEN TRUE
    ELSE IF IsAlphabetic(trimmed) THEN Join(trimmed) \in CSS_NAMED_COLORS
    ELSE FALSE

isSafeColorValue(v) ==
    LET trimmed == Trim(v) IN
    IF trimmed = <<>> THEN FALSE
    ELSE IF HasUrlCall(trimmed) THEN FALSE
    ELSE IF HasUnsafeChar(trimmed) THEN FALSE
    ELSE IF IsHexColor(trimmed, 3) THEN TRUE
    ELSE IF IsHexColor(trimmed, 6) THEN TRUE
    ELSE IF IsAlphabetic(trimmed) THEN Join(ToLowerCase(trimmed)) \in CSS_NAMED_COLORS
    ELSE FALSE

--------------------------------------------------------------------------
(* Style markers: COLOR_MARKER_REGEX, parseLineMarkers,                    *)
(* injectMarkersIntoLine.                                                  *)

\* The first index >= i of line whose grapheme does not satisfy the class
\* (Len(line) + 1 when there is none): what a greedy \s* or [a-zA-Z]+ eats.
RECURSIVE SkipSpaces(_, _)
SkipSpaces(line, i) ==
    IF i <= Len(line) /\ IsSpace(line[i]) THEN SkipSpaces(line, i + 1) ELSE i
RECURSIVE SkipLetters(_, _)
SkipLetters(line, i) ==
    IF i <= Len(line) /\ IsLetter(line[i]) THEN SkipLetters(line, i + 1) ELSE i
\* The first index >= i holding "}" (Len(line) + 1 when there is none).
RECURSIVE FindClose(_, _)
FindClose(line, i) ==
    IF i <= Len(line) /\ line[i] # "}" THEN FindClose(line, i + 1) ELSE i

\* One attempt of /\{\s*#([a-zA-Z]+)\s*:\s*([^}]+?)\s*\}/ anchored at index i.
\* [^}] cannot cross a "}", so the match ends at the first "}" after the
\* colon, and needs at least one grapheme between the colon and that "}".
MatchMarkerAt(line, i) ==
    LET hash  == SkipSpaces(line, i + 1)
        name  == hash + 1
        after == SkipLetters(line, name)
        colon == SkipSpaces(line, after)
        close == FindClose(line, colon + 1)
    IN  IF /\ i <= Len(line) /\ line[i] = "{"
           /\ hash <= Len(line) /\ line[hash] = "#"
           /\ after > name
           /\ colon <= Len(line) /\ line[colon] = ":"
           /\ close <= Len(line)
           /\ close > colon + 1
        THEN [found |-> TRUE, start |-> i, end |-> close,
              key |-> SubSeq(line, name, after - 1),
              value |-> SubSeq(line, colon + 1, close - 1)]
        ELSE [found |-> FALSE]

\* line.matchAll(COLOR_MARKER_REGEX): the leftmost non-overlapping matches.
RECURSIVE MatchAll(_, _)
MatchAll(line, i) ==
    IF i > Len(line) THEN <<>>
    ELSE LET m == MatchMarkerAt(line, i) IN
         IF ~m.found THEN MatchAll(line, i + 1)
         ELSE <<m>> \o MatchAll(line, m.end + 1)

MarkerKeys == {<<"b","g">>, <<"s","t","r","o","k","e">>, <<"c","o","l","o","r">>}

\* The loop body of parseLineMarkers: st is (cleanLine, cleanIndex, cursor,
\* markers); cursor is the 1-based index of the first grapheme not consumed.
ParseStep(line, st, m) ==
    LET prefix   == Slice(line, st.cursor, m.start - 1)
        rawKey   == ToLowerCase(m.key)
        rawValue == Trim(m.value)
        index    == st.cleanIndex + Len(prefix)
        keep     == rawKey \in MarkerKeys /\ isSafeColorValue(rawValue)
    IN  [cleanLine  |-> st.cleanLine \o prefix,
         cleanIndex |-> index,
         cursor     |-> m.end + 1,
         markers    |-> IF keep
                        THEN Append(st.markers,
                                    [key |-> rawKey, value |-> rawValue, index |-> index])
                        ELSE st.markers]

RECURSIVE ParseLoop(_, _, _)
ParseLoop(line, st, ms) ==
    IF ms = <<>> THEN st ELSE ParseLoop(line, ParseStep(line, st, Head(ms)), Tail(ms))

parseLineMarkers(line) ==
    LET ms == MatchAll(line, 1)
        st == ParseLoop(line,
                        [cleanLine |-> <<>>, cleanIndex |-> 0, cursor |-> 1,
                         markers |-> <<>>],
                        ms)
    IN  [rawLine    |-> line,
         cleanLine  |-> st.cleanLine \o Slice(line, st.cursor, Len(line)),
         markers    |-> st.markers,
         hadMarkers |-> ms # <<>>]

\* `{#${marker.key}:${marker.value}}`
MarkerText(marker) == <<"{", "#">> \o marker.key \o <<":">> \o marker.value \o <<"}">>

\* [...markers].sort((a, b) => a.index - b.index): a stable insertion sort.
RECURSIVE InsertByIndex(_, _)
InsertByIndex(sorted, m) ==
    IF sorted = <<>> THEN <<m>>
    ELSE IF Head(sorted).index <= m.index
         THEN <<Head(sorted)>> \o InsertByIndex(Tail(sorted), m)
         ELSE <<m>> \o sorted
RECURSIVE SortByIndex(_)
SortByIndex(ms) ==
    IF ms = <<>> THEN <<>>
    ELSE InsertByIndex(SortByIndex(SubSeq(ms, 1, Len(ms) - 1)), ms[Len(ms)])

\* The forEach of injectMarkersIntoLine: cells is the array being spliced,
\* each of its elements one grapheme or one whole marker text.
RECURSIVE InjectLoop(_, _, _)
InjectLoop(cells, ms, offset) ==
    IF ms = <<>> THEN cells
    ELSE LET insertAt == Max(0, Min(Len(cells), Head(ms).index + offset)) IN
         InjectLoop(SubSeq(cells, 1, insertAt) \o <<MarkerText(Head(ms))>>
                        \o SubSeq(cells, insertAt + 1, Len(cells)),
                    Tail(ms), offset + 1)

injectMarkersIntoLine(cleanLine, markers) ==
    IF markers = <<>> THEN cleanLine
    ELSE Flatten(InjectLoop([i \in 1..Len(cleanLine) |-> <<cleanLine[i]>>],
                            SortByIndex(markers), 0))

--------------------------------------------------------------------------
(* Constructor defaults (tenths of an SVG unit) and the structural         *)
(* classifier.                                                             *)

cw == 120
ch == 240
\* t.setAttribute('fill', textColor ?? '#444')
DefaultTextFill == <<"#", "4", "4", "4">>

\* /[─│┌┐└┘├┤┬┴┼║]/
RICH_STRUCTURE_CHARS ==
    {"U2500", "U2502", "U250C", "U2510", "U2514", "U2518", "U251C", "U2524",
     "U252C", "U2534", "U253C", "U2551"}
RICH_MODE_DETECTOR == RICH_STRUCTURE_CHARS
ASCII_STRUCTURE_CHARS ==
    RICH_STRUCTURE_CHARS \cup {"|", "_", "=", "/", "\\", "*", "+", "-", "v", "<", ">"}
RICH_VERTICAL_CHARS == {"U2502", "U2551"}
ASCII_VERTICAL_CHARS == {"U2502", "U2551", "|"}
CORNER_CHARS ==
    {"U250C", "U2510", "U2514", "U2518", "U251C", "U2524", "U252C", "U2534", "U253C"}

\* ascii.replace(/[\u200B-\u200D\uFEFF]/g, '') on one line of the document
ZeroWidthChars == {"U200B", "U200C", "U200D", "UFEFF"}
RemoveZeroWidth(line) == SelectSeq(line, LAMBDA g : g \notin ZeroWidthChars)
\* line.replace(/\r$/, '')
StripCR(line) ==
    IF line # <<>> /\ line[Len(line)] = "\r" THEN SubSeq(line, 1, Len(line) - 1) ELSE line

detectRichMode(lines) ==
    \E i \in 1..Len(lines) : \E j \in 1..Len(lines[i]) : lines[i][j] \in RICH_MODE_DETECTOR

isStructure(char, isRichMode) ==
    IF isRichMode THEN char \in RICH_STRUCTURE_CHARS ELSE char \in ASCII_STRUCTURE_CHARS

isVert(char, isRichMode) ==
    IF isRichMode THEN char \in RICH_VERTICAL_CHARS ELSE char \in ASCII_VERTICAL_CHARS

isCorner(char) == char \in CORNER_CHARS

connectsDown(char, isRichMode) ==
    IF isRichMode
    THEN IF char \in {"U2500", "U2550"} THEN FALSE
         ELSE char \in {"U2502", "U2551", "U250C", "U2510", "U251C", "U2524", "U252C",
                        "U253C", "U2554", "U2557", "U2560", "U2563", "U2566", "U256C",
                        "U2553", "U2556", "U2552", "U2555", "U2565", "U2564", "U256B"}
    ELSE IF char \in {"-", "=", "_"} THEN FALSE
         ELSE char \in {"|", "+", "v"}

connectsUp(char, isRichMode) ==
    IF isRichMode
    THEN IF char \in {"U2500", "U2550"} THEN FALSE
         ELSE char \in {"U2502", "U2551", "U2514", "U2518", "U251C", "U2524", "U2534",
                        "U253C", "U255A", "U255D", "U2560", "U2563", "U2569", "U256C",
                        "U2559", "U255C", "U2558", "U255B", "U2568", "U2567", "U256B"}
    ELSE IF char \in {"-", "=", "_"} THEN FALSE
         ELSE char \in {"|", "+", "v"}

shouldStartAtCenter(char, isRichMode) ==
    IF isRichMode
    THEN char \in {"U250C", "U2510", "U252C", "U2554", "U2557", "U2566", "U2553", "U2556",
                   "U2565", "U2552", "U2555", "U2564", "U253C", "U2560", "U2563", "U256C",
                   "U255F", "U2562", "U256B", "U255E", "U2561", "U256A", "U251C", "U2524"}
    ELSE char \in {"+", "v"}

shouldEndAtCenter(char, isRichMode) ==
    IF isRichMode
    THEN char \in {"U2514", "U2518", "U2534", "U255A", "U255D", "U2569", "U2559", "U255C",
                   "U2568", "U2558", "U255B", "U2567", "U253C", "U2560", "U2563", "U256C",
                   "U255F", "U2562", "U256B", "U255E", "U2561", "U256A", "U251C", "U2524"}
    ELSE char \in {"+", "v", "^"}

\* /^[A-Za-z0-9]$/
isAsciiWordChar(char) == char \in LowerLetters \cup UpperLetters \cup Digits

--------------------------------------------------------------------------
(* Display widths.  The graphemes of the model that fall in the wide       *)
(* ranges: U+4E2D (CJK, wide in both modes), U+2728 (in 2600-27BF, wide in *)
(* both modes) and U+2139 U+FE0F (a variation-selector sequence, wide in   *)
(* rich mode only).                                                        *)

WideInBothModes == {"U4E2D", "U2728"}
WideInRichModeOnly == {"U2139_FE0F"}

getGraphemeWidth(grapheme) == IF grapheme \in WideInBothModes THEN 2 ELSE 1
getRichModeWidth(grapheme) ==
    IF grapheme \in WideInBothModes \cup WideInRichModeOnly THEN 2 ELSE 1
getDisplayWidth(grapheme, isRichMode) ==
    IF isRichMode THEN getRichModeWidth(grapheme) ELSE getGraphemeWidth(grapheme)

RECURSIVE getTextDisplayWidth(_, _)
getTextDisplayWidth(t, isRichMode) ==
    IF t = <<>> THEN 0
    ELSE getDisplayWidth(Head(t), isRichMode) + getTextDisplayWidth(Tail(t), isRichMode)

--------------------------------------------------------------------------
(* The grid.  Rows, columns and marker indices are 0-based as in the       *)
(* source; Row(grid, r) and CharAt(grid, r, c) do the index shift.         *)

\* f[lo] \o f[lo + 1] \o ... \o f[hi] for f defined on lo..hi: a loop that
\* collects, in order, what each of its rounds appends.
Collect(f) ==
    LET lo == CHOOSE i \in DOMAIN f : \A j \in DOMAIN f : i <= j
        hi == lo + Cardinality(DOMAIN f) - 1
        acc[i \in (lo - 1)..hi] == IF i < lo THEN <<>> ELSE acc[i - 1] \o f[i]
    IN  IF DOMAIN f = {} THEN <<>> ELSE acc[hi]

Row(grid, r) == IF r >= 0 /\ r < Len(grid) THEN grid[r + 1] ELSE <<>>
HasCell(row, c) == c >= 0 /\ c < Len(row)
\* row[c]?.char ?? ''   (an absent grapheme compares unequal to every glyph)
RowChar(row, c) == IF HasCell(row, c) THEN row[c + 1].char ELSE ""
CharAt(grid, r, c) == RowChar(Row(grid, r), c)
LineChar(line, c) == IF c >= 0 /\ c < Len(line) THEN line[c + 1] ELSE ""

\* The tagging loop of render: whether the cell at (r, c) lies on the
\* perimeter of a box whose style has a stroke.
OnStrokedPerimeter(styles, boxes, r, c) ==
    \E k \in 1..Len(styles) :
        /\ styles[k].stroke # <<>>
        /\ LET b == boxes[styles[k].box] IN
           \/ r \in {b.top, b.bottom} /\ c >= b.left /\ c <= b.right
           \/ c \in {b.left, b.right} /\ r >= b.top /\ r <= b.bottom

\* The lines.forEach of render that fills rowData: currentX of the cell at
\* column c is cw plus the pixel widths of the graphemes before it.  The
\* partOfStrokedBox flag, set by a later loop of render, comes from the box
\* styles (styles, a sequence of [box, bg, stroke], box an index of boxes).
RowCells(line, r, isRichMode, styles, boxes) ==
    [k \in 1..Len(line) |->
        LET currentX   == cw + getTextDisplayWidth(SubSeq(line, 1, k - 1), isRichMode) * cw
            widthUnits == getDisplayWidth(line[k], isRichMode)
            pxWidth    == widthUnits * cw
            y          == r * ch + ch
        IN  [char |-> line[k], x |-> currentX, y |-> y,
             cx |-> currentX + pxWidth \div 2, cy |-> y + ch \div 2,
             w |-> pxWidth, cols |-> widthUnits,
             partOfStrokedBox |-> OnStrokedPerimeter(styles, boxes, r, k - 1)]]

BuildGrid(lines, isRichMode, styles, boxes) ==
    [i \in 1..Len(lines) |-> RowCells(lines[i], i - 1, isRichMode, styles, boxes)]

--------------------------------------------------------------------------
(* Vertical connectivity.  A cell of a row is named by its 0-based column; *)
(* -1 stands for null.                                                     *)

\* A nearest-candidate choice in which, of equally near candidates, the one
\* latest in the row comes first.
selectNearestLatest(curr, nextRow, candidates) ==
    IF candidates = {} THEN -1
    ELSE CHOOSE c \in candidates :
            \A o \in candidates :
                \/ Abs(nextRow[c + 1].cx - curr.cx) < Abs(nextRow[o + 1].cx - curr.cx)
                \/ /\ Abs(nextRow[c + 1].cx - curr.cx) = Abs(nextRow[o + 1].cx - curr.cx)
                   /\ c >= o

\* selectNearest: the first candidate, in row order, at the least distance
\* (Array.prototype.sort is stable), or -1.
selectNearest(curr, nextRow, candidates) ==
    IF candidates = {} THEN -1
    ELSE CHOOSE c \in candidates :
            \A o \in candidates :
                \/ Abs(nextRow[c + 1].cx - curr.cx) < Abs(nextRow[o + 1].cx - curr.cx)
                \/ /\ Abs(nextRow[c + 1].cx - curr.cx) = Abs(nextRow[o + 1].cx - curr.cx)
                   /\ c <= o

findVerticalNeighbor(curr, nextRow, isRichMode) ==
    IF ~connectsDown(curr.char, isRichMode) THEN -1
    ELSE LET connectedNextRow ==
                 {c \in 0..(Len(nextRow) - 1) : connectsUp(nextRow[c + 1].char, isRichMode)}
             tightTolerance   == cw \div 2
             relaxedTolerance == cw * 2
             tightCandidates ==
                 {c \in connectedNextRow : Abs(nextRow[c + 1].cx - curr.cx) < tightTolerance}
             relaxedCandidates ==
                 {c \in connectedNextRow : Abs(nextRow[c + 1].cx - curr.cx) < relaxedTolerance}
             tight == selectNearest(curr, nextRow, tightCandidates)
         IN  IF tight # -1 THEN tight ELSE selectNearest(curr, nextRow, relaxedCandidates)

isAsciiVConnector(row, colIndex, rowIndex, grid) ==
    LET leftChar  == RowChar(row, colIndex - 1)
        rightChar == RowChar(row, colIndex + 1)
        hasHorizontalStructuralNeighbor == leftChar \in {"-", "+"} \/ rightChar \in {"-", "+"}
        prevRow == Row(grid, rowIndex - 1)
        hasVerticalNeighborAbove ==
            /\ rowIndex > 0
            /\ \E p \in 1..Len(prevRow) :
                  /\ prevRow[p].char \in {"|", "+"}
                  /\ findVerticalNeighbor(prevRow[p], row, FALSE) = colIndex
        surroundedByWordChars == isAsciiWordChar(leftChar) /\ isAsciiWordChar(rightChar)
    IN  hasHorizontalStructuralNeighbor \/ hasVerticalNeighborAbove \/ ~surroundedByWordChars

\* The while loop of detectVerticalRuns: the chain below the cell at
\* (currentRowIndex, currentCol), as the cells pushed after it.
RECURSIVE ChainBelow(_, _, _, _)
ChainBelow(grid, isRichMode, currentRowIndex, currentCol) ==
    IF ~(currentRowIndex < Len(grid) - 1) THEN <<>>
    ELSE LET currentCell == Row(grid, currentRowIndex)[currentCol + 1]
             nextRow     == Row(grid, currentRowIndex + 1)
             next        == findVerticalNeighbor(currentCell, nextRow, isRichMode)
         IN  IF next = -1 THEN <<>>
             ELSE IF currentCell.partOfStrokedBox /\ nextRow[next + 1].partOfStrokedBox
                  THEN <<>>
                  ELSE <<nextRow[next + 1]>>
                       \o ChainBelow(grid, isRichMode, currentRowIndex + 1, next)

\* The body of row.forEach in detectVerticalRuns: the runs pushed for the
\* cell at (rowIndex, colIndex), none or one.
RunsStartedAt(grid, isRichMode, rowIndex, colIndex) ==
    LET row     == Row(grid, rowIndex)
        cell    == row[colIndex + 1]
        prevRow == Row(grid, rowIndex - 1)
        hasIncoming ==
            \E p \in 0..(Len(prevRow) - 1) :
                /\ ~(/\ ~isRichMode
                     /\ prevRow[p + 1].char = "v"
                     /\ ~isAsciiVConnector(prevRow, p, rowIndex - 1, grid))
                /\ findVerticalNeighbor(prevRow[p + 1], row, isRichMode) = colIndex
        cells == <<cell>> \o ChainBelow(grid, isRichMode, rowIndex, colIndex)
    IN  IF ~connectsDown(cell.char, isRichMode) /\ ~connectsUp(cell.char, isRichMode)
        THEN <<>>
        ELSE IF /\ ~isRichMode
                /\ cell.char = "v"
                /\ ~isAsciiVConnector(row, colIndex, rowIndex, grid)
        THEN <<>>
        ELSE IF hasIncoming THEN <<>>
        ELSE IF Len(cells) > 1 THEN <<[cx |-> cells[1].cx, cells |-> cells]>>
        ELSE <<>>

detectVerticalRuns(grid, isRichMode) ==
    Collect([rowIndex \in 0..(Len(grid) - 1) |->
        Collect([colIndex \in 0..(Len(Row(grid, rowIndex)) - 1) |->
            RunsStartedAt(grid, isRichMode, rowIndex, colIndex)])])

--------------------------------------------------------------------------
(* Rectangular boxes and their styles.                                     *)

isTopLeftCorner(char) == char = "+" \/ char = "U250C"
isTopRightCorner(char) == char = "+" \/ char = "U2510"
isBottomLeftCorner(char) == char = "+" \/ char = "U2514"
isBottomRightCorner(char) == char = "+" \/ char = "U2518"
\* A horizontal edge test that lets a border run through a corner glyph.
isHorizontalBoxEdgeOrCorner(char) == char \in {"-", "U2500", "+"}

isHorizontalBoxEdge(char) == char = "-" \/ char = "U2500"
isVerticalBoxEdge(char) == char \in {"|", "U2502", "+", "U251C", "U2524"}

\* A validation that looks at the four corners only.
IsBoxAtCornersOnly(lines, top, left, right, bottom) ==
    LET topRow    == lines[top + 1]
        bottomRow == lines[bottom + 1]
    IN  /\ isTopLeftCorner(LineChar(topRow, left))
        /\ isTopRightCorner(LineChar(topRow, right))
        /\ isBottomLeftCorner(LineChar(bottomRow, left))
        /\ isBottomRightCorner(LineChar(bottomRow, right))

\* The innermost tests of detectRectangularBoxes for one (top, left, right,
\* bottom); lines are the graphemeRows.
IsBoxAt(lines, top, left, right, bottom) ==
    LET topRow    == lines[top + 1]
        bottomRow == lines[bottom + 1]
    IN  /\ isTopLeftCorner(LineChar(topRow, left))
        /\ isTopRightCorner(LineChar(topRow, right))
        /\ \A x \in (left + 1)..(right - 1) : isHorizontalBoxEdge(LineChar(topRow, x))
        /\ isBottomLeftCorner(LineChar(bottomRow, left))
        /\ isBottomRightCorner(LineChar(bottomRow, right))
        /\ \A x \in (left + 1)..(right - 1) : isHorizontalBoxEdge(LineChar(bottomRow, x))
        /\ \A y \in (top + 1)..(bottom - 1) :
              /\ isVerticalBoxEdge(LineChar(lines[y + 1], left))
              /\ isVerticalBoxEdge(LineChar(lines[y + 1], right))

\* The four nested loops, outermost first: top, left, right, bottom.
detectRectangularBoxes(lines) ==
    Collect([top \in 0..(Len(lines) - 1) |->
      Collect([left \in 0..(Len(lines[top + 1]) - 1) |->
        Collect([right \in (left + 2)..(Len(lines[top + 1]) - 1) |->
          Collect([bottom \in (top + 2)..(Len(lines) - 1) |->
            IF IsBoxAt(lines, top, left, right, bottom)
            THEN <<[top |-> top, right |-> right, bottom |-> bottom, left |-> left,
                    area |-> (right - left) * (bottom - top)]>>
            ELSE <<>>])])])])

Encloses(box, row, col) ==
    row > box.top /\ row < box.bottom /\ col > box.left /\ col < box.right

\* The first detected box that encloses the cell, whatever its area.
findFirstEnclosingBox(boxes, row, col) ==
    LET enclosing == {b \in 1..Len(boxes) : Encloses(boxes[b], row, col)}
    IN  IF enclosing = {} THEN 0 ELSE CHOOSE b \in enclosing : \A o \in enclosing : b <= o

\* filter(...).sort((a, b) => a.area - b.area)[0] ?? null, as the 1-based
\* position in boxes of the box found, 0 for null: the stable sort keeps the
\* detection order among boxes of equal area.
findSmallestEnclosingBox(boxes, row, col) ==
    LET enclosing == {b \in 1..Len(boxes) : Encloses(boxes[b], row, col)}
    IN  IF enclosing = {} THEN 0
        ELSE CHOOSE b \in enclosing :
                \A o \in enclosing :
                    \/ boxes[b].area < boxes[o].area
                    \/ boxes[b].area = boxes[o].area /\ b <= o

resolveTextColor(markers, colIndex) ==
    LET loop[k \in 0..Len(markers)] ==
            \* [color, stopped] after the first k markers
            IF k = 0 THEN [color |-> <<>>, stopped |-> FALSE]
            ELSE LET before == loop[k - 1]
                     marker == markers[k]
                 IN  IF before.stopped \/ marker.key # <<"c","o","l","o","r">> THEN before
                     ELSE IF marker.index > colIndex
                          THEN [color |-> before.color, stopped |-> TRUE]
                          ELSE [color |-> marker.value, stopped |-> FALSE]
    IN  loop[Len(markers)].color

\* The parsedLines.forEach of render that fills boxStyles: the styles in
\* insertion order, each with the position in boxes of its box; an unset bg
\* or stroke is the empty value.
ApplyStyleMarker(styles, boxes, row, marker) ==
    LET box == findSmallestEnclosingBox(boxes, row, marker.index)
        at  == {k \in 1..Len(styles) : styles[k].box = box}
        old == IF at = {} THEN [box |-> box, bg |-> <<>>, stroke |-> <<>>]
               ELSE styles[CHOOSE k \in at : TRUE]
        new == IF marker.key = <<"b","g">>
               THEN [old EXCEPT !.bg = marker.value]
               ELSE [old EXCEPT !.stroke = marker.value]
    IN  IF marker.key \notin {<<"b","g">>, <<"s","t","r","o","k","e">>} THEN styles
        ELSE IF box = 0 THEN styles
        ELSE IF at = {} THEN Append(styles, new)
        ELSE [styles EXCEPT ![CHOOSE k \in at : TRUE] = new]

RECURSIVE ApplyRowMarkers(_, _, _, _)
ApplyRowMarkers(styles, boxes, row, markers) ==
    IF markers = <<>> THEN styles
    ELSE ApplyRowMarkers(ApplyStyleMarker(styles, boxes, row, Head(markers)),
                         boxes, row, Tail(markers))

BoxStyles(parsedLines, boxes) ==
    LET acc[r \in 0..Len(parsedLines)] ==
            IF r = 0 THEN <<>>
            ELSE ApplyRowMarkers(acc[r - 1], boxes, r - 1, parsedLines[r].markers)
    IN  acc[Len(parsedLines)]

\* The rect elements of boxFillGroup, then those of boxStrokeGroup.
BoxRects(styles, boxes) ==
    LET Geometry(b, kind, color) ==
            [kind |-> kind, fill |-> IF kind = "fill" THEN color ELSE <<>>,
             stroke |-> IF kind = "stroke" THEN color ELSE <<>>,
             x |-> ((2 * b.left + 3) * cw) \div 2,
             y |-> ((2 * b.top + 3) * ch) \div 2,
             width |-> (b.right - b.left) * cw,
             height |-> (b.bottom - b.top) * ch,
             top |-> b.top, left |-> b.left, bottom |-> b.bottom, right |-> b.right]
        Fill(k) ==
            LET b == boxes[styles[k].box] IN
            IF /\ styles[k].bg # <<>>
               /\ Max(0, (b.right - b.left) * cw) > 0
               /\ Max(0, (b.bottom - b.top) * ch) > 0
            THEN <<Geometry(b, "fill", styles[k].bg)>> ELSE <<>>
        Stroke(k) ==
            IF styles[k].stroke # <<>>
            THEN <<Geometry(boxes[styles[k].box], "stroke", styles[k].stroke)>> ELSE <<>>
    IN  Collect([k \in 1..Len(styles) |-> Fill(k)])
        \o Collect([k \in 1..Len(styles) |-> Stroke(k)])

--------------------------------------------------------------------------
(* Pass 1 and pass 2 of render: the commands of the path's d attribute.    *)

canConnectHorizontally(left, right, isRichMode) ==
    IF left.partOfStrokedBox /\ right.partOfStrokedBox THEN FALSE
    ELSE /\ isStructure(left.char, isRichMode)
         /\ isStructure(right.char, isRichMode)
         /\ Abs(right.x - (left.x + left.w)) < 2 * 10

\* The inner while loop: the L commands from row[j] on (j is 0-based), and
\* the j it stops at.
RECURSIVE ExtendHorizontal(_, _, _)
ExtendHorizontal(row, j, isRichMode) ==
    IF j < Len(row) - 1 /\ canConnectHorizontally(row[j + 1], row[j + 2], isRichMode)
    THEN LET rest == ExtendHorizontal(row, j + 1, isRichMode) IN
         [d |-> <<<<"L", row[j + 2].cx, row[j + 2].cy>>>> \o rest.d, j |-> rest.j]
    ELSE [d |-> <<>>, j |-> j]

\* The outer while loop of pass 1 for one row, from index i (0-based).
RECURSIVE HorizontalSegments(_, _, _)
HorizontalSegments(row, i, isRichMode) ==
    IF ~(i < Len(row) - 1) THEN <<>>
    ELSE IF ~canConnectHorizontally(row[i + 1], row[i + 2], isRichMode)
         THEN HorizontalSegments(row, i + 1, isRichMode)
         ELSE LET ext == ExtendHorizontal(row, i, isRichMode) IN
              <<<<"M", row[i + 1].cx, row[i + 1].cy>>>> \o ext.d
              \o HorizontalSegments(row, ext.j, isRichMode)

\* A run drawn between the centres of its first and last cells.
VerticalSegmentBetweenCentres(run, isRichMode) ==
    <<<<"M", run.cx, run.cells[1].cy>>, <<"L", run.cx, run.cells[Len(run.cells)].cy>>>>

\* verticalRuns.forEach of pass 2 for one run.
VerticalSegment(run, isRichMode) ==
    LET firstCell == run.cells[1]
        lastCell  == run.cells[Len(run.cells)]
        startY == IF shouldStartAtCenter(firstCell.char, isRichMode)
                  THEN firstCell.cy ELSE firstCell.cy - ch \div 2
        endY   == IF shouldEndAtCenter(lastCell.char, isRichMode)
                  THEN lastCell.cy ELSE lastCell.cy + ch \div 2
        Mid(index) ==
            LET midY == run.cells[index + 1].cy IN
            IF Abs(midY - startY) > 0 /\ Abs(midY - endY) > 0
            THEN <<<<"M", run.cx, midY>>, <<"L", run.cx, midY>>>> ELSE <<>>
    IN  <<<<"M", run.cx, startY>>, <<"L", run.cx, endY>>>>
        \o Collect([k \in 1..(Len(run.cells) - 2) |-> Mid(k)])

PathData(grid, isRichMode) ==
    LET verticalRuns == detectVerticalRuns(grid, isRichMode) IN
    Collect([r \in 1..Len(grid) |-> HorizontalSegments(grid[r], 0, isRichMode)])
    \o Collect([k \in 1..Len(verticalRuns) |->
                    VerticalSegment(verticalRuns[k], isRichMode)])

--------------------------------------------------------------------------
(* Pass 3 of render: zones and text nodes.  A text node carries, beside    *)
(* its attributes, the row, the zone (by its start) and the column of the  *)
(* cell its first grapheme was read from (cellMap), for reference.         *)

isAsciiZoneConnector(grid, isRichMode, rowIndex, colIndex) ==
    LET row       == Row(grid, rowIndex)
        char      == RowChar(row, colIndex)
        leftChar  == RowChar(row, colIndex - 1)
        rightChar == RowChar(row, colIndex + 1)
        upChar    == CharAt(grid, rowIndex - 1, colIndex)
        downChar  == CharAt(grid, rowIndex + 1, colIndex)
        isHorizontal(v) == v \in {"-", "+", "=", "_"}
        isVertical(v)   == v \in {"|", "+"}
        hasHorizontal == isHorizontal(leftChar) \/ isHorizontal(rightChar)
        hasVertical   == isVertical(upChar) \/ isVertical(downChar)
    IN  IF isRichMode THEN FALSE
        ELSE IF ~HasCell(row, colIndex) THEN FALSE
        ELSE IF char \notin {"-", "|", "+", "v"} THEN FALSE
        ELSE IF char = "-" THEN hasHorizontal
        ELSE IF char = "|" THEN hasVertical
        ELSE hasHorizontal /\ hasVertical

\* The row.forEach that collects walls, for the cell at column i.
IsWall(grid, isRichMode, rowIndex, i) ==
    LET row  == Row(grid, rowIndex)
        char == RowChar(row, i)
        leftChar  == RowChar(row, i - 1)
        rightChar == RowChar(row, i + 1)
        upChar    == CharAt(grid, rowIndex - 1, i)
        downChar  == CharAt(grid, rowIndex + 1, i)
        isWall == isVert(char, isRichMode) \/ isCorner(char)
        hasHorizontalBox == leftChar \in {"-", "+"} \/ rightChar \in {"-", "+"}
        hasVerticalBox   == upChar \in {"|", "+"} \/ downChar \in {"|", "+"}
    IN  IF ~isRichMode /\ char = "+" /\ ~isWall
        THEN hasHorizontalBox \/ hasVerticalBox
        ELSE isWall

Walls(grid, isRichMode, rowIndex) ==
    Collect([i \in 0..(Len(Row(grid, rowIndex)) - 1) |->
        IF IsWall(grid, isRichMode, rowIndex, i) THEN <<i>> ELSE <<>>])

\* maxPixelW + cw
CanvasWidth(grid) ==
    LET RowEnd(r) == IF grid[r] = <<>> THEN cw
                     ELSE grid[r][Len(grid[r])].x + grid[r][Len(grid[r])].w
        maxTo[r \in 0..Len(grid)] == IF r = 0 THEN 0 ELSE Max(maxTo[r - 1], RowEnd(r))
    IN  maxTo[Len(grid)] + cw

Zones(grid, isRichMode, rowIndex) ==
    LET row   == Row(grid, rowIndex)
        walls == Walls(grid, isRichMode, rowIndex)
    IN  IF Len(walls) < 2
        THEN <<[start |-> 0, end |-> Len(row), leftX |-> cw,
                rightX |-> CanvasWidth(grid) - cw]>>
        ELSE [k \in 1..(Len(walls) - 1) |->
                 [start  |-> walls[k] + 1,
                  end    |-> walls[k + 1],
                  leftX  |-> row[walls[k] + 1].x + row[walls[k] + 1].w,
                  rightX |-> row[walls[k + 1] + 1].x]]

\* The for loop that builds rawString and cellMap: the columns kept.
ZoneCellMap(grid, isRichMode, rowIndex, zone) ==
    LET row == Row(grid, rowIndex) IN
    Collect([k \in zone.start..(zone.end - 1) |->
                IF ~HasCell(row, k) THEN <<>>
                ELSE IF isAsciiZoneConnector(grid, isRichMode, rowIndex, k) THEN <<>>
                ELSE IF /\ row[k + 1].partOfStrokedBox
                        /\ isStructure(row[k + 1].char, isRichMode) THEN <<>>
                ELSE <<k>>])

\* /\s{2,}/.test(text)
HasSpaceRun(t) == \E i \in 1..(Len(t) - 1) : IsSpace(t[i]) /\ IsSpace(t[i + 1])

StartsWith(t, c) == t # <<>> /\ t[1] = c
EndsWith(t, c) == t # <<>> /\ t[Len(t)] = c

\* A text node that ignores the alignment it is given.
createTextNodeAtStart(content, align, finalX, cell, preserve, textColor, rowIndex, zone, col) ==
    [x |-> finalX, y |-> cell.y + (ch * 7) \div 10, anchor |-> "start",
     fill |-> IF textColor = <<>> THEN DefaultTextFill ELSE textColor,
     content |-> content, preserve |-> preserve,
     row |-> rowIndex, zone |-> zone.start, col |-> col]

\* createTextNode
createTextNode(content, align, finalX, cell, preserve, textColor, rowIndex, zone, col) ==
    [x |-> finalX, y |-> cell.y + (ch * 7) \div 10, anchor |-> align,
     fill |-> IF textColor = <<>> THEN DefaultTextFill ELSE textColor,
     content |-> content, preserve |-> preserve,
     row |-> rowIndex, zone |-> zone.start, col |-> col]

\* createSplitAwareTextNode; cols are the cellMap columns of the graphemes
\* of t, carried along for the node's col.
createSplitAwareTextNode(t, align, finalX, cell, preserve, tokenStartCol, rowMarkers, isRichMode, rowIndex, zone, cols) ==
    LET tokenEndCol == tokenStartCol + Len(t)
        breakSet == {rowMarkers[k].index : k \in
                        {k \in 1..Len(rowMarkers) :
                            /\ rowMarkers[k].key = <<"c","o","l","o","r">>
                            /\ rowMarkers[k].index > tokenStartCol
                            /\ rowMarkers[k].index < tokenEndCol}}
        \* .map(marker => marker.index).sort(): one entry per marker
        tokenColorBreaks ==
            Collect([c \in (tokenStartCol + 1)..(tokenEndCol - 1) |->
                Repeat(c, Cardinality({k \in 1..Len(rowMarkers) :
                                    /\ rowMarkers[k].key = <<"c","o","l","o","r">>
                                    /\ rowMarkers[k].index = c}))])
        splitPoints == <<tokenStartCol>> \o tokenColorBreaks \o <<tokenEndCol>>
        tokenWidthPx == getTextDisplayWidth(t, isRichMode) * cw
        tokenLeftX == IF align = "middle" THEN finalX - tokenWidthPx \div 2
                      ELSE IF align = "end" THEN finalX - tokenWidthPx
                      ELSE finalX
        Segment(splitIndex) ==
            LET localStart == splitPoints[splitIndex] - tokenStartCol
                localEnd   == splitPoints[splitIndex + 1] - tokenStartCol
                segmentText == Slice(t, localStart + 1, localEnd)
                consumedCols == getTextDisplayWidth(Slice(t, 1, localStart), isRichMode)
            IN  IF segmentText = <<>> THEN <<>>
                ELSE <<createTextNode(segmentText, "start",
                                      tokenLeftX + consumedCols * cw, cell,
                                      preserve \/ HasSpaceRun(segmentText),
                                      resolveTextColor(rowMarkers, splitPoints[splitIndex]),
                                      rowIndex, zone, cols[localStart + 1])>>
    IN  IF breakSet = {}
        THEN <<createTextNode(t, align, finalX, cell, preserve,
                              resolveTextColor(rowMarkers, tokenStartCol),
                              rowIndex, zone, IF cols = <<>> THEN -1 ELSE cols[1])>>
        ELSE Collect([k \in 1..(Len(splitPoints) - 1) |-> Segment(k)])

\* One match of /\S+(?: [^\s]+)*/ starting at the 1-based index j of a
\* non-space grapheme: the index of its last grapheme.
RECURSIVE TokenEnd(_, _)
TokenEnd(raw, j) ==
    IF j < Len(raw) /\ ~IsSpace(raw[j + 1]) THEN TokenEnd(raw, j + 1)
    ELSE IF j + 2 <= Len(raw) /\ raw[j + 1] = " " /\ ~IsSpace(raw[j + 2])
         THEN TokenEnd(raw, j + 2)
         ELSE j

\* rawString.matchAll(/\S+(?: [^\s]+)*/g) from the 1-based index i on: each
\* match with its 0-based match.index.
RECURSIVE MatchTokens(_, _)
MatchTokens(raw, i) ==
    IF i > Len(raw) THEN <<>>
    ELSE IF IsSpace(raw[i]) THEN MatchTokens(raw, i + 1)
    ELSE LET e == TokenEnd(raw, i) IN
         <<[index |-> i - 1, text |-> SubSeq(raw, i, e)]>> \o MatchTokens(raw, e + 1)

\* The alignment hints of one token: the text left, the anchor and
\* leadingAlignOffset.
TokenAlignment(t) ==
    LET lead ==
            IF StartsWith(t, "^") /\ EndsWith(t, "^") /\ Len(t) > 2
            THEN [align |-> "middle", text |-> SubSeq(t, 2, Len(t) - 1), off |-> 1]
            ELSE IF StartsWith(t, "^") /\ Len(t) > 1 /\ t # <<"^", "^">>
            THEN [align |-> "middle", text |-> Tail(t), off |-> 1]
            ELSE IF StartsWith(t, ">")
            THEN [align |-> "end", text |-> Tail(t), off |-> 1]
            ELSE IF StartsWith(t, "<")
            THEN [align |-> "start", text |-> Tail(t), off |-> 1]
            ELSE [align |-> "start", text |-> t, off |-> 0]
    IN  IF EndsWith(lead.text, ">")
        THEN [align |-> "end", text |-> SubSeq(lead.text, 1, Len(lead.text) - 1),
              off |-> lead.off]
        ELSE lead

\* An x that leaves a token with a leading "<" at its own column.
TokenFinalXAtColumn(matchText, align, cell, zone) ==
    IF align = "middle" THEN (zone.leftX + zone.rightX) \div 2
    ELSE IF align = "end" THEN zone.rightX - (cw * 8) \div 10
    ELSE cell.x

\* finalX of a token: matchText is match[0], align the anchor its hints give,
\* cell the cell of its first grapheme; pad is cw * 0.8.
TokenFinalX(matchText, align, cell, zone) ==
    LET pad        == (cw * 8) \div 10
        zoneCenter == (zone.leftX + zone.rightX) \div 2
    IN  IF align = "middle" THEN zoneCenter
        ELSE IF align = "end" THEN zone.rightX - pad
        ELSE IF StartsWith(matchText, "<") THEN zone.leftX + pad
        ELSE cell.x

\* The body of zones.forEach: the text nodes of one zone.
ZoneTextNodes(grid, isRichMode, rowIndex, zone, rowMarkers) ==
    LET row       == Row(grid, rowIndex)
        cellMap   == ZoneCellMap(grid, isRichMode, rowIndex, zone)
        rawString == [k \in 1..Len(cellMap) |-> row[cellMap[k] + 1].char]
        trimmed   == Trim(rawString)
        leadingSpaceCount == Len(rawString) - Len(TrimStart(rawString))
        \* cellMap[leadingSpaceCount] ?? cellMap[0]
        baseCell  == IF leadingSpaceCount < Len(cellMap)
                     THEN row[cellMap[leadingSpaceCount + 1] + 1]
                     ELSE row[cellMap[1] + 1]
        zoneCenter == (zone.leftX + zone.rightX) \div 2
        baseCol   == zone.start + leadingSpaceCount + 1
        Token(m) ==
            LET a    == TokenAlignment(m.text)
                cell == row[cellMap[m.index + 1] + 1]
                finalX == TokenFinalX(m.text, a.align, cell, zone)
                tokenStartCol == zone.start + m.index + a.off
            IN  IF a.text = <<>> THEN <<>>
                ELSE createSplitAwareTextNode(
                         a.text, a.align, finalX, cell, HasSpaceRun(a.text),
                         tokenStartCol, rowMarkers, isRichMode, rowIndex, zone,
                         SubSeq(cellMap, m.index + a.off + 1, m.index + a.off + Len(a.text)))
        matches == MatchTokens(rawString, 1)
    IN  IF trimmed = <<>> THEN <<>>
        ELSE IF StartsWith(trimmed, "^") /\ EndsWith(trimmed, "^") /\ Len(trimmed) > 2
        THEN createSplitAwareTextNode(
                 SubSeq(trimmed, 2, Len(trimmed) - 1), "middle", zoneCenter, baseCell,
                 TRUE, baseCol, rowMarkers, isRichMode, rowIndex, zone,
                 SubSeq(cellMap, leadingSpaceCount + 2, leadingSpaceCount + Len(trimmed) - 1))
        ELSE IF StartsWith(trimmed, "^") /\ Len(trimmed) > 1 /\ trimmed # <<"^", "^">>
        THEN createSplitAwareTextNode(
                 Tail(trimmed), "middle", zoneCenter, baseCell,
                 TRUE, baseCol, rowMarkers, isRichMode, rowIndex, zone,
                 SubSeq(cellMap, leadingSpaceCount + 2, leadingSpaceCount + Len(trimmed)))
        ELSE Collect([k \in 1..Len(matches) |-> Token(matches[k])])

TextNodes(grid, isRichMode, parsedLines) ==
    Collect([rowIndex \in 0..(Len(grid) - 1) |->
        LET zones == Zones(grid, isRichMode, rowIndex) IN
        Collect([k \in 1..Len(zones) |->
            ZoneTextNodes(grid, isRichMode, rowIndex, zones[k],
                          parsedLines[rowIndex + 1].markers)])])

--------------------------------------------------------------------------
(* render, for a document given as its lines.                              *)

\* ascii.replace(zero width).split('\n').map(line => parseLineMarkers(line.replace(/\r$/, '')))
ParseDocument(doc) ==
    [i \in 1..Len(doc) |-> parseLineMarkers(StripCR(RemoveZeroWidth(doc[i])))]

CleanLines(parsedLines) == [i \in 1..Len(parsedLines) |-> parsedLines[i].cleanLine]

render(doc) ==
    LET parsedLines == ParseDocument(doc)
        lines       == CleanLines(parsedLines)
        isRichMode  == detectRichMode(lines)
        boxes       == detectRectangularBoxes(lines)
        boxStyles   == BoxStyles(parsedLines, boxes)
        grid        == BuildGrid(lines, isRichMode, boxStyles, boxes)
    IN  [d     |-> PathData(grid, isRichMode),
         rects |-> BoxRects(boxStyles, boxes),
         texts |-> TextNodes(grid, isRichMode, parsedLines)]

--------------------------------------------------------------------------
(* autoFormat, for a document given as its lines; the result is the        *)
(* sequence of the lines of the returned string.                           *)

EmptyMeta == [rawLine |-> <<>>, cleanLine |-> <<>>, markers |-> <<>>, hadMarkers |-> FALSE]

\* A block splitter in which a blank line only closes the current block.
SplitBlocksNoGaps(parsedLines) ==
    LET step[k \in 0..Len(parsedLines)] ==
            IF k = 0 THEN [blocks |-> <<>>, currentBlock |-> <<>>]
            ELSE LET before == step[k - 1]
                     line   == parsedLines[k].cleanLine
                 IN  IF Trim(line) = <<>>
                     THEN [blocks |-> IF before.currentBlock # <<>>
                                      THEN Append(before.blocks, before.currentBlock)
                                      ELSE before.blocks,
                           currentBlock |-> <<>>]
                     ELSE [blocks |-> before.blocks,
                           currentBlock |-> Append(before.currentBlock, parsedLines[k])]
        last == step[Len(parsedLines)]
    IN  IF last.currentBlock # <<>> THEN Append(last.blocks, last.currentBlock)
        ELSE last.blocks

\* parsedLines.forEach(...) and the push after it: blocks and blockMeta in
\* one, a block being the sequence of its parsed lines, <<EmptyMeta>> for a
\* blank line.
SplitBlocks(parsedLines) ==
    LET step[k \in 0..Len(parsedLines)] ==
            IF k = 0 THEN [blocks |-> <<>>, currentBlock |-> <<>>]
            ELSE LET before == step[k - 1]
                     line   == parsedLines[k].cleanLine
                 IN  IF Trim(line) = <<>>
                     THEN [blocks |-> (IF before.currentBlock # <<>>
                                       THEN Append(before.blocks, before.currentBlock)
                                       ELSE before.blocks) \o <<<<EmptyMeta>>>>,
                           currentBlock |-> <<>>]
                     ELSE [blocks |-> before.blocks,
                           currentBlock |-> Append(before.currentBlock, parsedLines[k])]
        last == step[Len(parsedLines)]
    IN  IF last.currentBlock # <<>> THEN Append(last.blocks, last.currentBlock)
        ELSE last.blocks

\* /^\s+[|+]\s*$/.test(line)
isConnectorStub(line) ==
    LET indent == SkipSpaces(line, 1) IN
    /\ indent > 1
    /\ indent <= Len(line)
    /\ line[indent] \in {"|", "+"}
    /\ SkipSpaces(line, indent + 1) > Len(line)

\* A test for structural-only lines that does not count the arrowhead "v".
isStructuralOnlyLineNoArrow(line, isRichMode) ==
    /\ Len(Trim(line)) > 0
    /\ \A k \in 1..Len(line) :
          line[k] = " " \/ (isStructure(line[k], isRichMode) /\ line[k] # "v")

isStructuralOnlyLine(line, isRichMode) ==
    /\ Len(Trim(line)) > 0
    /\ \A k \in 1..Len(line) : line[k] = " " \/ isStructure(line[k], isRichMode)

BoxJoints == {"+", "U250C", "U2510", "U2514", "U2518", "U251C", "U2524", "U252C", "U2534", "U253C"}

\* A formatter that pads every line with spaces to the width of its block.
FormatLinePadded(line, visW, maxVisWidth, isRichMode) ==
    line \o Repeat(" ", maxVisWidth - visW)

\* A centred line whose larger half of the padding goes to the left.
CenteredLineCeil(indentation, prefix, centeredContent, suffix, maxVisWidth, isRichMode) ==
    LET availableWidth ==
            maxVisWidth - getTextDisplayWidth(indentation \o prefix \o suffix, isRichMode)
        contentWidth == getTextDisplayWidth(centeredContent, isRichMode)
        totalPadding == Max(0, availableWidth - contentWidth)
        rightPad     == totalPadding \div 2
        leftPad      == totalPadding - rightPad
    IN  indentation \o prefix \o Repeat(" ", leftPad) \o centeredContent
            \o Repeat(" ", rightPad) \o suffix

\* nextLine of the branch centeredContent !== null.
CenteredLine(indentation, prefix, centeredContent, suffix, maxVisWidth, isRichMode) ==
    LET availableWidth ==
            maxVisWidth - getTextDisplayWidth(indentation \o prefix \o suffix, isRichMode)
        contentWidth == getTextDisplayWidth(centeredContent, isRichMode)
        totalPadding == Max(0, availableWidth - contentWidth)
        leftPad      == totalPadding \div 2
        rightPad     == totalPadding - leftPad
    IN  indentation \o prefix \o Repeat(" ", leftPad) \o centeredContent
            \o Repeat(" ", rightPad) \o suffix

\* A fill character that prefers the light rule over the double one.
FillCharLightFirst(prefix, middle, suffix) ==
    LET coreContent  == SelectSeq(middle, LAMBDA c : c \notin {"+", "v", "^", "<", ">", "|"})
        isStructural == /\ coreContent # <<>>
                        /\ \A k \in 1..Len(coreContent) :
                              coreContent[k] \in {"-", "U2500", "U2550"}
    IN  IF isStructural
        THEN IF Includes(middle, <<"U2500">>) THEN "U2500"
             ELSE IF Includes(middle, <<"U2550">>) THEN "U2550"
             ELSE "-"
        ELSE " "

\* A fill character that is the rule character of the mode for every line.
FillCharAlwaysRule(prefix, middle, suffix) ==
    IF Includes(middle, <<"U2550">>) THEN "U2550"
    ELSE IF Includes(middle, <<"U2500">>) THEN "U2500"
    ELSE "-"

\* fillChar of the branch if (suffix): prefix and suffix are the empty
\* sequence or hold one grapheme.
FillChar(prefix, middle, suffix) ==
    LET coreContent  == SelectSeq(middle, LAMBDA c : c \notin {"+", "v", "^", "<", ">", "|"})
        isStructural == /\ coreContent # <<>>
                        /\ \A k \in 1..Len(coreContent) :
                              coreContent[k] \in {"-", "U2500", "U2550"}
        isEmptyStructural ==
            /\ Len(middle) = 0
            /\ Len(prefix) > 0 /\ prefix[1] \in BoxJoints
            /\ suffix[1] \in BoxJoints
    IN  IF isStructural \/ isEmptyStructural
        THEN IF Includes(middle, <<"U2550">>) \/ prefix = <<"U2550">> THEN "U2550"
             ELSE IF Includes(middle, <<"U2500">>) \/ prefix = <<"U2500">> THEN "U2500"
             ELSE "-"
        ELSE " "

\* The body of lineStats.map(...) up to the value of nextLine, before the
\* markers are injected again.
FormatLine(line, visW, maxVisWidth, isRichMode) ==
    LET diff        == maxVisWidth - visW
        indentation == SubSeq(line, 1, SkipSpaces(line, 1) - 1)
        lineWithoutIndentation == SubSeq(line, Len(indentation) + 1, Len(line))
        firstChar   == LineChar(lineWithoutIndentation, 0)
        lastChar    == LineChar(lineWithoutIndentation, Len(lineWithoutIndentation) - 1)
        hasStructuralBoundary ==
            isStructure(firstChar, isRichMode) \/ isStructure(lastChar, isRichMode)
        hasPrefix   == /\ Len(lineWithoutIndentation) > 0
                       /\ isStructure(lineWithoutIndentation[1], isRichMode)
        prefix      == IF hasPrefix THEN <<lineWithoutIndentation[1]>> ELSE <<>>
        afterPrefix == IF hasPrefix THEN Tail(lineWithoutIndentation)
                       ELSE lineWithoutIndentation
        hasSuffix   == /\ Len(afterPrefix) > 0
                       /\ isStructure(afterPrefix[Len(afterPrefix)], isRichMode)
        suffix      == IF hasSuffix THEN <<afterPrefix[Len(afterPrefix)]>> ELSE <<>>
        middle      == IF hasSuffix THEN SubSeq(afterPrefix, 1, Len(afterPrefix) - 1)
                       ELSE afterPrefix
        hasIndentedStructuralWalls ==
            /\ Len(prefix) > 0 /\ Len(suffix) > 0
            /\ isStructure(prefix[1], isRichMode) /\ isStructure(suffix[1], isRichMode)
        trimmedMiddle == Trim(middle)
        isCentered ==
            \/ StartsWith(trimmedMiddle, "^") /\ EndsWith(trimmedMiddle, "^")
                  /\ Len(trimmedMiddle) > 2
            \/ StartsWith(trimmedMiddle, "^") /\ Len(trimmedMiddle) > 1
                  /\ trimmedMiddle # <<"^", "^">>
        centeredContent == trimmedMiddle
        fillChar == FillChar(prefix, middle, suffix)
    IN  IF isConnectorStub(line) THEN line
        ELSE IF isStructuralOnlyLine(line, isRichMode) THEN line
        ELSE IF ~hasStructuralBoundary /\ ~Includes(lineWithoutIndentation, <<"^">>) THEN line
        ELSE IF hasIndentedStructuralWalls /\ diff > 0
                /\ (isRichMode \/ Len(indentation) > 0) THEN line
        ELSE IF diff <= 0 /\ ~isCentered THEN line
        ELSE IF isCentered
        THEN CenteredLine(indentation, prefix, centeredContent, suffix, maxVisWidth,
                          isRichMode)
        ELSE IF suffix # <<>>
        THEN indentation \o prefix \o middle \o Repeat(fillChar, diff) \o suffix
        ELSE line

\* A block formatter that pads to one column more than the widest line.
FormatBlockWider(block, isRichMode) ==
    LET visW(k) == getTextDisplayWidth(block[k].cleanLine, isRichMode)
        maxTo[k \in 0..Len(block)] == IF k = 0 THEN 0 ELSE Max(maxTo[k - 1], visW(k))
        maxVisWidth == maxTo[Len(block)] + 1
    IN  IF Len(block) = 1 /\ block[1].cleanLine = <<>> THEN <<<<>>>>
        ELSE [k \in 1..Len(block) |->
                 LET nextLine == FormatLine(block[k].cleanLine, visW(k), maxVisWidth,
                                            isRichMode)
                 IN  IF block[k].hadMarkers
                     THEN injectMarkersIntoLine(nextLine, block[k].markers)
                     ELSE nextLine]

\* blocks.map(...) for one block: the lines of the string it returns.
FormatBlock(block, isRichMode) ==
    LET visW(k) == getTextDisplayWidth(block[k].cleanLine, isRichMode)
        maxTo[k \in 0..Len(block)] == IF k = 0 THEN 0 ELSE Max(maxTo[k - 1], visW(k))
        maxVisWidth == maxTo[Len(block)]
    IN  IF Len(block) = 1 /\ block[1].cleanLine = <<>> THEN <<<<>>>>
        ELSE [k \in 1..Len(block) |->
                 LET nextLine == FormatLine(block[k].cleanLine, visW(k), maxVisWidth,
                                            isRichMode)
                 IN  IF block[k].hadMarkers
                     THEN injectMarkersIntoLine(nextLine, block[k].markers)
                     ELSE nextLine]

autoFormat(doc) ==
    LET parsedLines == ParseDocument(doc)
        isRichMode  == detectRichMode(CleanLines(parsedLines))
        blocks      == SplitBlocks(parsedLines)
    IN  Collect([b \in 1..Len(blocks) |-> FormatBlock(blocks[b], isRichMode)])

--------------------------------------------------------------------------
(* The engine as a state machine: an input is chosen, then one public or   *)
(* private operation is applied to it.                                     *)

NoSvg == [d |-> <<>>, rects |-> <<>>, texts |-> <<>>]

Idle ==
    /\ pc = "input"
    /\ safe = FALSE /\ parsed = <<>> /\ reparsed = <<>> /\ injected = <<>>
    /\ svg = NoSvg /\ formatted = <<>>
    /\ document = TRUE
    /\ cursor = <<0, 0>> /\ neighbor = -1 /\ foundRuns = <<>> /\ foundBoxes = <<>>
    /\ enclosingBox = 0

\* isSafeColorValue(value)
CheckColor ==
    /\ pc = "input"
    /\ safe' = isSafeColorValue(value)
    /\ pc' = "checked"
    /\ UNCHANGED <<text, value, parsed, reparsed, injected, svg, formatted, document,
                   cursor, neighbor, foundRuns, foundBoxes, enclosingBox>>

\* text.split('\n').map(line => parseLineMarkers(line))
ParseLines ==
    /\ pc = "input"
    /\ text # <<>>
    /\ parsed' = ParseDocument(text)
    /\ pc' = "parsed"
    /\ UNCHANGED <<text, value, safe, reparsed, injected, svg, formatted, document,
                   cursor, neighbor, foundRuns, foundBoxes, enclosingBox>>

\* parseLineMarkers applied to each cleanLine it produced
ReparseClean ==
    /\ pc = "parsed"
    /\ reparsed' = [i \in 1..Len(parsed) |-> parseLineMarkers(parsed[i].cleanLine)]
    /\ pc' = "reparsed"
    /\ UNCHANGED <<text, value, safe, parsed, injected, svg, formatted, document,
                   cursor, neighbor, foundRuns, foundBoxes, enclosingBox>>

\* parseLineMarkers(injectMarkersIntoLine(cleanLine, markers)) for each line
InjectAndParse ==
    /\ pc = "parsed"
    /\ injected' = [i \in 1..Len(parsed) |->
                       parseLineMarkers(
                           injectMarkersIntoLine(parsed[i].cleanLine, parsed[i].markers))]
    /\ pc' = "injected"
    /\ UNCHANGED <<text, value, safe, parsed, reparsed, svg, formatted, document,
                   cursor, neighbor, foundRuns, foundBoxes, enclosingBox>>

\* A render that looks for the document only after it has parsed the text.
RenderChecksLate ==
    /\ pc = "input"
    /\ text # <<>>
    /\ parsed' = ParseDocument(text)
    /\ IF ~document
       THEN pc' = "error" /\ UNCHANGED svg
       ELSE svg' = render(text) /\ pc' = "rendered"
    /\ UNCHANGED <<text, value, safe, reparsed, injected, formatted, document,
                   cursor, neighbor, foundRuns, foundBoxes, enclosingBox>>

\* render(text): it throws when typeof document === 'undefined', before
\* anything else; otherwise parsed keeps its parsedLines and svg the element
\* it returns.
Render ==
    /\ pc = "input"
    /\ text # <<>>
    /\ IF ~document
       THEN pc' = "error" /\ UNCHANGED <<parsed, svg>>
       ELSE /\ parsed' = ParseDocument(text)
            /\ svg' = render(text)
            /\ pc' = "rendered"
    /\ UNCHANGED <<text, value, safe, reparsed, injected, formatted, document,
                   cursor, neighbor, foundRuns, foundBoxes, enclosingBox>>

\* autoFormat(text)
AutoFormat ==
    /\ pc = "input"
    /\ text # <<>>
    /\ formatted' = autoFormat(text)
    /\ pc' = "formatted"
    /\ UNCHANGED <<text, value, safe, parsed, reparsed, injected, svg, document,
                   cursor, neighbor, foundRuns, foundBoxes, enclosingBox>>

\* render(autoFormat(text)): formatted keeps the lines of the formatted
\* text, parsed the parsedLines of render and svg the element it returns.
FormatAndRender ==
    /\ pc = "input"
    /\ text # <<>>
    /\ formatted' = autoFormat(text)
    /\ IF ~document
       THEN pc' = "error" /\ UNCHANGED <<parsed, svg>>
       ELSE /\ parsed' = ParseDocument(formatted')
            /\ svg' = render(formatted')
            /\ pc' = "drawn"
    /\ UNCHANGED <<text, value, safe, reparsed, injected, document,
                   cursor, neighbor, foundRuns, foundBoxes, enclosingBox>>

--------------------------------------------------------------------------
(* Colour values under test: built from at most MaxValuePieces pieces.     *)

MaxValuePieces == 3

ValuePieces ==
    {<<"#">>, <<"a","b","c">>, <<"0","F","9">>, <<"a","b","c","d">>,
     <<"r","e","d">>, <<"R">>, <<"e","d">>, <<"g">>, <<" ">>,
     <<"u","r","l","(">>, <<"(">>, <<")">>, <<"{">>, <<"}">>, <<";">>}

InitColor ==
    /\ Idle
    /\ text = <<>>
    /\ value \in {Flatten(ps) : ps \in SeqsUpTo(ValuePieces, MaxValuePieces)}

SpecColor == InitColor /\ [][CheckColor]_vars

(* C1: isSafeColorValue(V) is true exactly when V, trimmed, is "#" followed *)
(* by 3 or by 6 hex digits, or is a name of the CSS allow-list compared     *)
(* case-insensitively; so a value holding "(", ")", "{", "}", ";" or        *)
(* "url(" is rejected, and so are the empty value, 4- and 8-digit hex and   *)
(* unknown names.                                                           *)
IsHexForm(s, n) ==
    /\ Len(s) = n + 1
    /\ Head(s) = "#"
    /\ \A i \in 2..(n + 1) : IsHexDigit(s[i])
IsAllowedName(s) == \E n \in CSS_NAMED_COLORS : Join(ToLowerCase(s)) = n
C1_SafeColorExact ==
    pc = "checked" =>
        /\ safe = (\/ IsHexForm(Trim(value), 3)
                   \/ IsHexForm(Trim(value), 6)
                   \/ IsAllowedName(Trim(value)))
        /\ ((\E i \in 1..Len(value) : value[i] \in {"(", ")", "{", "}", ";"}) => ~safe)
        /\ (Len(Trim(value)) \in {0, 5, 9} => ~safe)
C1_Witness ==
    /\ pc = "checked"
    /\ safe
    /\ value = <<" ", "R", "e", "d">>

--------------------------------------------------------------------------
(* Marker lines under test: one raw line built from at most MaxLinePieces  *)
(* pieces, so that markers may stand next to, and inside, one another.     *)

MaxLinePieces == 4

LinePieces ==
    {<<"{">>, <<"}">>, <<"a">>, <<" ">>,
     <<"#","b","g",":">>,
     <<"r","e","d","}">>,
     <<"{","#","x",":","y","}">>,
     <<"{","#","b","g",":","r","e","d","}">>,
     <<"{"," ","#","C","O","L","O","R"," ",":"," ","#","a","b","c"," ","}">>,
     <<"{","#","s","t","r","o","k","e",":","u","r","l","(","x",")","}">>}

InitMarker ==
    /\ Idle
    /\ value = <<>>
    /\ \E ps \in SeqsUpTo(LinePieces, MaxLinePieces) : text = <<Flatten(ps)>>

NextMarker == ParseLines \/ ReparseClean \/ InjectAndParse

SpecMarker == InitMarker /\ [][NextMarker]_vars

(* C2: marker stripping is idempotent: parsing the cleanLine that           *)
(* parseLineMarkers produced finds no marker (hadMarkers = false, no        *)
(* markers, cleanLine unchanged), also when removing a marker joins the     *)
(* text on both sides of it.                                                *)
C2_StripIdempotent ==
    pc = "reparsed" =>
        \A i \in 1..Len(parsed) :
            /\ ~reparsed[i].hadMarkers
            /\ reparsed[i].markers = <<>>
            /\ reparsed[i].cleanLine = parsed[i].cleanLine

(* C3: parse/inject round trip: parsing the line that                       *)
(* injectMarkersIntoLine builds from cleanLine and markers gives the same   *)
(* cleanLine and the same markers (kind, value, index, order).              *)
C3_InjectRoundTrip ==
    pc = "injected" =>
        \A i \in 1..Len(parsed) :
            /\ injected[i].cleanLine = parsed[i].cleanLine
            /\ injected[i].markers = parsed[i].markers

--------------------------------------------------------------------------
(* Styled diagrams under test: a diagram of the catalogue, rendered as it  *)
(* is or with one more marker put at one of the first MaxInsertCol         *)
(* positions of one of its raw lines (inside an existing marker too).      *)

MaxInsertCol == 22

\* +-------+
\* | +---+ |
\* | | a | |
\* | +---+ |
\* +-------+
NestedBoxes ==
    <<<<"+","-","-","-","-","-","-","-","+">>,
      <<"|"," ","+","-","-","-","+"," ","|">>,
      <<"|"," ","|"," ","a"," ","|"," ","|">>,
      <<"|"," ","+","-","-","-","+"," ","|">>,
      <<"+","-","-","-","-","-","-","-","+">>>>

\* +-------+
\* | -- Hi |
\* +-------+
DashedLabel ==
    <<<<"+","-","-","-","-","-","-","-","+">>,
      <<"|"," ","-","-"," ","H","i"," ","|">>,
      <<"+","-","-","-","-","-","-","-","+">>>>

\* +------+
\* |{#color:red} ab cd|
\* +------+
StyledBox ==
    <<<<"+","-","-","-","-","-","-","+">>,
      <<"|","{","#","c","o","l","o","r",":","r","e","d","}"," ","a","b"," ","c","d","|">>,
      <<"+","-","-","-","-","-","-","+">>>>

\* +-------+
\* |{#bg:#eee} +---+ |
\* | |{#stroke:red} b | |
\* | +---+ |
\* +-------+
StyledNest ==
    <<<<"+","-","-","-","-","-","-","-","+">>,
      <<"|","{","#","b","g",":","#","e","e","e","}"," ","+","-","-","-","+"," ","|">>,
      <<"|"," ","|","{","#","s","t","r","o","k","e",":","r","e","d","}"," ","b"," ","|"," ","|">>,
      <<"|"," ","+","-","-","-","+"," ","|">>,
      <<"+","-","-","-","-","-","-","-","+">>>>

\* a box of box-drawing glyphs around " ab "
RichBox ==
    <<<<"U250C","U2500","U2500","U2500","U2500","U2510">>,
      <<"U2502"," ","a","b"," ","U2502">>,
      <<"U2514","U2500","U2500","U2500","U2500","U2518">>>>

\* ab cd
\* +- ef
FreeText ==
    <<<<"a","b"," ","c","d">>,
      <<"+","-"," ","e","f">>>>

StyleDiagrams == {NestedBoxes, DashedLabel, StyledBox, StyledNest, RichBox, FreeText}

ValidMarkerPieces ==
    {<<"{","#","b","g",":","#","a","b","c","}">>,
     <<"{","#","s","t","r","o","k","e",":","b","l","u","e","}">>,
     <<"{","#","c","o","l","o","r",":","r","e","d","}">>,
     <<"{","#","C","o","l","o","r",":"," ","#","0","0","F"," ","}">>}

InvalidMarkerPieces ==
    {<<"{","#","f","o","o",":","r","e","d","}">>,
     <<"{","#","b","g",":","u","r","l","(","j","s",")","}">>,
     <<"{","#","c","o","l","o","r",":","r","g","b","(","1",",","2",",","3",")","}">>}

InsertAt(line, col, piece) ==
    Slice(line, 1, col) \o piece \o Slice(line, col + 1, Len(line))

WithMarker(doc, r, col, piece) ==
    [i \in 1..Len(doc) |-> IF i = r THEN InsertAt(doc[i], col, piece) ELSE doc[i]]

InitStyle ==
    /\ Idle
    /\ value = <<>>
    /\ \E doc \in StyleDiagrams :
          \/ text = doc
          \/ \E r \in 1..Len(doc), piece \in ValidMarkerPieces \cup InvalidMarkerPieces :
                \E col \in 0..Min(Len(doc[r]), MaxInsertCol) :
                    text = WithMarker(doc, r, col, piece)

SpecStyle == InitStyle /\ [][Render]_vars

(* C4: a marker whose kind is not color, bg or stroke, or whose value is   *)
(* not a 3- or 6-digit hex colour or an allow-listed name, is a zero-width  *)
(* no-op: the text of every marker match is gone from cleanLine, the        *)
(* StyleMarkers of a line are exactly its valid matches (kind lower-cased,  *)
(* value trimmed, index counted in cleanLine), every rectangle carries the  *)
(* colour of a valid bg or stroke marker, and every text fill is '#444' or  *)
(* the value of a valid color marker at or before the node on its row.      *)
InMatch(ms, pos) == \E k \in 1..Len(ms) : ms[k].start <= pos /\ pos <= ms[k].end
WithoutMatches(line, ms) ==
    LET keep[i \in 0..Len(line)] ==
            IF i = 0 THEN <<>>
            ELSE IF InMatch(ms, i) THEN keep[i - 1] ELSE Append(keep[i - 1], line[i])
    IN  keep[Len(line)]
VisibleBefore(ms, pos) == Cardinality({q \in 1..(pos - 1) : ~InMatch(ms, q)})
MatchIsValid(m) ==
    /\ ToLowerCase(m.key) \in {<<"c","o","l","o","r">>, <<"b","g">>, <<"s","t","r","o","k","e">>}
    /\ \/ IsHexForm(Trim(m.value), 3)
       \/ IsHexForm(Trim(m.value), 6)
       \/ IsAllowedName(Trim(m.value))
ValidMatches(line) ==
    LET ms == MatchAll(line, 1) IN
    SelectSeq([k \in 1..Len(ms) |->
                  [key |-> ToLowerCase(ms[k].key), value |-> Trim(ms[k].value),
                   index |-> VisibleBefore(ms, ms[k].start), valid |-> MatchIsValid(ms[k])]],
              LAMBDA m : m.valid)
C4_InvalidMarkerNoOp ==
    pc = "rendered" =>
        /\ \A i \in 1..Len(text) :
              LET valid == ValidMatches(text[i]) IN
              /\ parsed[i].cleanLine = WithoutMatches(text[i], MatchAll(text[i], 1))
              /\ Len(parsed[i].markers) = Len(valid)
              /\ \A k \in 1..Len(valid) :
                    /\ parsed[i].markers[k].key = valid[k].key
                    /\ parsed[i].markers[k].value = valid[k].value
                    /\ parsed[i].markers[k].index = valid[k].index
        /\ \A n \in 1..Len(svg.rects) :
              \E i \in 1..Len(text) : \E k \in 1..Len(ValidMatches(text[i])) :
                  LET m == ValidMatches(text[i])[k] IN
                  \/ m.key = <<"b","g">> /\ svg.rects[n].kind = "fill"
                                         /\ svg.rects[n].fill = m.value
                  \/ m.key = <<"s","t","r","o","k","e">> /\ svg.rects[n].kind = "stroke"
                                         /\ svg.rects[n].stroke = m.value
        /\ \A n \in 1..Len(svg.texts) :
              LET t == svg.texts[n] IN
              \/ t.fill = <<"#","4","4","4">>
              \/ \E k \in 1..Len(ValidMatches(text[t.row + 1])) :
                    LET m == ValidMatches(text[t.row + 1])[k] IN
                    /\ m.key = <<"c","o","l","o","r">>
                    /\ m.index <= t.col
                    /\ m.value = t.fill
C4_Witness ==
    /\ pc = "rendered"
    /\ text = WithMarker(DashedLabel, 2, 5,
                  <<"{","#","c","o","l","o","r",":","r","g","b","(","1",",","2",",","3",")","}">>)
    /\ parsed[2].cleanLine = DashedLabel[2]
    /\ parsed[2].hadMarkers
    /\ parsed[2].markers = <<>>
    /\ svg.rects = <<>>
    /\ Len(svg.texts) = 1
    /\ svg.texts[1].content = <<"H","i">>
    /\ svg.texts[1].fill = <<"#","4","4","4">>

(* C5: every text node is filled with the value of the last color marker   *)
(* of its row whose cleanLine index is at or before the cleanLine column of *)
(* the node's first grapheme, and with '#444' when the row has no such      *)
(* marker; also in a zone where connector cells were skipped before the     *)
(* token.                                                                   *)
ColorMarkersUpTo(markers, col) ==
    {k \in 1..Len(markers) :
        markers[k].key = <<"c","o","l","o","r">> /\ markers[k].index <= col}
FillAtColumn(markers, col) ==
    LET S == ColorMarkersUpTo(markers, col) IN
    IF S = {} THEN <<"#","4","4","4">>
    ELSE markers[CHOOSE k \in S : \A j \in S : j <= k].value
C5_FillFollowsMarker ==
    pc = "rendered" =>
        \A n \in 1..Len(svg.texts) :
            svg.texts[n].fill =
                FillAtColumn(parsed[svg.texts[n].row + 1].markers, svg.texts[n].col)

(* C6: box style resolution picks the innermost box. Every rectangle of   *)
(* kind bg (stroke) lies on a box of minimal area among the detected boxes *)
(* that strictly enclose some valid bg (stroke) marker and carries that    *)
(* marker's value; every enclosed marker has its rectangle on such a box;  *)
(* there are never more rectangles of a kind than enclosed markers of that *)
(* kind, so no outer box is styled and an unenclosed marker draws nothing. *)
DetectedBoxes ==
    LET boxes == detectRectangularBoxes(CleanLines(parsed)) IN
    {boxes[k] : k \in 1..Len(boxes)}
InnermostBoxes(row, col) ==
    LET around == {b \in DetectedBoxes :
                      /\ b.top < row /\ row < b.bottom
                      /\ b.left < col /\ col < b.right}
    IN  {b \in around :
            \A o \in around :
                (b.right - b.left) * (b.bottom - b.top)
                    <= (o.right - o.left) * (o.bottom - o.top)}
MarkersOfKind(key) ==
    UNION {{<<r, k>> : k \in {j \in 1..Len(parsed[r].markers) :
                                  parsed[r].markers[j].key = key}} :
           r \in 1..Len(parsed)}
RectIsOn(rect, b) ==
    /\ 2 * rect.x = (2 * b.left + 3) * cw
    /\ 2 * rect.y = (2 * b.top + 3) * ch
    /\ rect.width = (b.right - b.left) * cw
    /\ rect.height = (b.bottom - b.top) * ch
InnermostStyled(key, kind) ==
    LET placed  == MarkersOfKind(key)
        rects   == {n \in 1..Len(svg.rects) : svg.rects[n].kind = kind}
        Colour(n) == IF kind = "fill" THEN svg.rects[n].fill ELSE svg.rects[n].stroke
    IN  /\ \A n \in rects :
              \E p \in placed :
                  LET m == parsed[p[1]].markers[p[2]] IN
                  /\ Colour(n) = m.value
                  /\ \E b \in InnermostBoxes(p[1] - 1, m.index) : RectIsOn(svg.rects[n], b)
        /\ \A p \in placed :
              LET inner == InnermostBoxes(p[1] - 1, parsed[p[1]].markers[p[2]].index) IN
              inner # {} => \E n \in rects : \E b \in inner : RectIsOn(svg.rects[n], b)
        /\ Cardinality(rects)
              <= Cardinality({p \in placed :
                     InnermostBoxes(p[1] - 1, parsed[p[1]].markers[p[2]].index) # {}})
C6_InnermostBoxStyled ==
    pc = "rendered" =>
        /\ InnermostStyled(<<"b","g">>, "fill")
        /\ InnermostStyled(<<"s","t","r","o","k","e">>, "stroke")
\* A bg marker inside the inner box of two nested boxes: one rectangle, on
\* the inner box (left 2, top 1, 4 columns by 2 rows).
C6_Witness ==
    /\ pc = "rendered"
    /\ text = WithMarker(NestedBoxes, 3, 4, <<"{","#","b","g",":","#","a","b","c","}">>)
    /\ Len(svg.rects) = 1
    /\ svg.rects[1].kind = "fill"
    /\ svg.rects[1].fill = <<"#","a","b","c">>
    /\ svg.rects[1].x = 420 /\ svg.rects[1].y = 600
    /\ svg.rects[1].width = 480 /\ svg.rects[1].height = 480

--------------------------------------------------------------------------
(* Connector diagrams under test: at most MaxPathRows rows, each a row of  *)
(* the catalogue: bars, corners and arrowheads, alone, indented, between   *)
(* dashes and inside words.                                                *)

MaxPathRows == 3

PathRows ==
    {<<"|">>,
     <<"+">>,
     <<"v">>,
     <<" ","|">>,
     <<"-","v","-">>,
     <<"a","v","a">>,
     <<"s","a","v","v","y">>,
     <<"S","e","r","v","i","c","e">>,
     <<" "," "," ","+">>,
     <<"U2502">>,
     <<"U2514","U2500">>}

InitPath ==
    /\ Idle
    /\ value = <<>>
    /\ text \in SeqsUpTo(PathRows, MaxPathRows)
    /\ text # <<>>

SpecPath == InitPath /\ [][Render]_vars

\* The grid render builds for a marker-free document.
PathGrid == BuildGrid(text, detectRichMode(text), <<>>, <<>>)

(* C7: in ASCII mode a "v" with an alphanumeric on both sides, so no "-"   *)
(* or "+" beside it, and with no "|" or "+" above it or above its          *)
(* neighbours, contributes to no path segment: no command of the path has  *)
(* a point at the centre x of that cell within the cell's row; and         *)
(* "Service" over "   +" renders the empty path.                           *)
IsWordV(r, c) ==
    /\ CharAt(PathGrid, r, c) = "v"
    /\ isAsciiWordChar(CharAt(PathGrid, r, c - 1))
    /\ isAsciiWordChar(CharAt(PathGrid, r, c + 1))
    /\ \A k \in (c - 1)..(c + 1) : CharAt(PathGrid, r - 1, k) \notin {"|", "+"}
C7_WordVNotStructural ==
    pc = "rendered" /\ ~detectRichMode(text) =>
        /\ \A r \in 0..(Len(text) - 1) : \A c \in 0..(Len(text[r + 1]) - 1) :
              IsWordV(r, c) =>
                  \A n \in 1..Len(svg.d) :
                      ~ /\ svg.d[n][2] = PathGrid[r + 1][c + 1].cx
                        /\ svg.d[n][3] >= PathGrid[r + 1][c + 1].y
                        /\ svg.d[n][3] <= PathGrid[r + 1][c + 1].y + ch
        /\ (text = <<<<"S","e","r","v","i","c","e">>, <<" "," "," ","+">>>> => svg.d = <<>>)

(* C8: every vertical run of two or more cells is drawn as one line. The   *)
(* vertical segments of non-zero length in the path are, in order, one per *)
(* run of detectVerticalRuns: at the run's x, from the first cell's top    *)
(* edge (its centre if shouldStartAtCenter) to the last cell's bottom edge *)
(* (its centre if shouldEndAtCenter).  For "|" over "|" that is exactly    *)
(* one segment, at the bars' centre x, through the centres of both rows.   *)
VerticalStrokes(d) ==
    Collect([n \in 1..(Len(d) - 1) |->
        IF /\ d[n][1] = "M" /\ d[n + 1][1] = "L"
           /\ d[n][2] = d[n + 1][2]
           /\ d[n][3] # d[n + 1][3]
        THEN <<[x |-> d[n][2], from |-> d[n][3], to |-> d[n + 1][3]]>>
        ELSE <<>>])
RunExtent(run, isRichMode) ==
    LET first == run.cells[1]
        last  == run.cells[Len(run.cells)]
    IN  [x    |-> first.cx,
         from |-> IF shouldStartAtCenter(first.char, isRichMode)
                  THEN first.y + ch \div 2 ELSE first.y,
         to   |-> IF shouldEndAtCenter(last.char, isRichMode)
                  THEN last.y + ch \div 2 ELSE last.y + ch]
C8_OneSegmentPerRun ==
    pc = "rendered" =>
        LET isRichMode == detectRichMode(text)
            runs       == detectVerticalRuns(PathGrid, isRichMode)
            strokes    == VerticalStrokes(svg.d)
        IN  /\ Len(strokes) = Len(runs)
            /\ \A k \in 1..Len(runs) :
                  /\ Len(runs[k].cells) >= 2
                  /\ strokes[k] = RunExtent(runs[k], isRichMode)
            /\ (text = <<<<"|">>, <<"|">>>> =>
                  /\ Len(strokes) = 1
                  /\ strokes[1].x = cw + cw \div 2
                  /\ strokes[1].from <= ch + ch \div 2
                  /\ strokes[1].to >= 2 * ch + ch \div 2)
C8_Witness ==
    /\ pc = "rendered"
    /\ text = <<<<"|">>, <<"|">>>>
    /\ svg.d = <<<<"M", 180, 240>>, <<"L", 180, 720>>>>
\* A run of three cells that starts at the centre of a "+" and ends at the
\* centre of a "v", with a dot at its middle cell.
C8_WitnessCentres ==
    /\ pc = "rendered"
    /\ text = <<<<"+">>, <<"|">>, <<"v">>>>
    /\ svg.d = <<<<"M", 180, 360>>, <<"L", 180, 840>>, <<"M", 180, 600>>, <<"L", 180, 600>>>>

--------------------------------------------------------------------------
(* Centred labels under test: at most MaxCenterRows rows of the catalogue: *)
(* bounded "^...^" zones between walls and without walls, with connector   *)
(* cells, with color markers before, inside and after the label, and rows  *)
(* that are not bounded centring.                                          *)

MaxCenterRows == 2

CenterRows ==
    {
     \* | ^Hi  yo^ |
     <<"|"," ","^","H","i"," "," ","y","o","^"," ","|">>,
     \* |^a^|
     <<"|","^","a","^","|">>,
     \* | ^a b^ | ^c^ |
     <<"|"," ","^","a"," ","b","^"," ","|"," ","^","c","^"," ","|">>,
     \* ^top^
     <<"^","t","o","p","^">>,
     \* | -- ^x y^ |
     <<"|"," ","-","-"," ","^","x"," ","y","^"," ","|">>,
     \* |{#color:red} ^ab^ |
     <<"|","{","#","c","o","l","o","r",":","r","e","d","}"," ","^","a","b","^"," ","|">>,
     \* | ^a{#color:red}b^ |
     <<"|"," ","^","a","{","#","c","o","l","o","r",":","r","e","d","}","b","^"," ","|">>,
     \* | ^ab^ {#color:red}|
     <<"|"," ","^","a","b","^"," ","{","#","c","o","l","o","r",":","r","e","d","}","|">>,
     \* +----------+
     <<"+","-","-","-","-","-","-","-","-","-","-","+">>,
     \* | plain |
     <<"|"," ","p","l","a","i","n"," ","|">>,
     \* U+2502, " ^r^ ", U+2502
     <<"U2502"," ","^","r","^"," ","U2502">>,
     \* | ^a^b |
     <<"|"," ","^","a","^","b"," ","|">>,
     \* |^^^|
     <<"|","^","^","^","|">>}

InitCenter ==
    /\ Idle
    /\ value = <<>>
    /\ text \in SeqsUpTo(CenterRows, MaxCenterRows)
    /\ text # <<>>

SpecCenter == InitCenter /\ [][Render]_vars

\* The grid render builds for a document without stroke markers.
CenterGrid ==
    BuildGrid(CleanLines(parsed), detectRichMode(CleanLines(parsed)), <<>>, <<>>)

(* C9: bounded centring. A zone whose trimmed text is "^...^" with more     *)
(* than 2 graphemes, and with no color marker strictly inside the zone,     *)
(* gives exactly one text node: its content is the text between the two     *)
(* "^" with every space kept, its anchor is middle, and its x is the        *)
(* midpoint of the zone's pixel bounds.                                     *)
ZoneText(r, zone) ==
    LET cells == ZoneCellMap(CenterGrid, detectRichMode(CleanLines(parsed)), r, zone) IN
    Trim([k \in 1..Len(cells) |-> CenterGrid[r + 1][cells[k] + 1].char])
IsBoundedCentering(t) == Len(t) > 2 /\ t[1] = "^" /\ t[Len(t)] = "^"
HasColorBoundary(r, zone) ==
    \E k \in 1..Len(parsed[r + 1].markers) :
        /\ parsed[r + 1].markers[k].key = <<"c","o","l","o","r">>
        /\ parsed[r + 1].markers[k].index > zone.start
        /\ parsed[r + 1].markers[k].index < zone.end
C9_BoundedCentering ==
    pc = "rendered" =>
        \A r \in 0..(Len(parsed) - 1) :
            LET zones == Zones(CenterGrid, detectRichMode(CleanLines(parsed)), r) IN
            \A z \in 1..Len(zones) :
                LET t     == ZoneText(r, zones[z])
                    nodes == {n \in 1..Len(svg.texts) :
                                 svg.texts[n].row = r /\ svg.texts[n].zone = zones[z].start}
                IN  IsBoundedCentering(t) /\ ~HasColorBoundary(r, zones[z]) =>
                        /\ Cardinality(nodes) = 1
                        /\ \A n \in nodes :
                              /\ svg.texts[n].content = SubSeq(t, 2, Len(t) - 1)
                              /\ svg.texts[n].anchor = "middle"
                              /\ 2 * svg.texts[n].x = zones[z].leftX + zones[z].rightX
\* "| ^Hi  yo^ |": one node "Hi  yo" (two spaces kept), centred between the
\* walls at x = (24 + 144) / 2.
C9_Witness ==
    /\ pc = "rendered"
    /\ text = <<<<"|"," ","^","H","i"," "," ","y","o","^"," ","|">>>>
    /\ Len(svg.texts) = 1
    /\ svg.texts[1].content = <<"H","i"," "," ","y","o">>
    /\ svg.texts[1].anchor = "middle"
    /\ svg.texts[1].x = 840

--------------------------------------------------------------------------
(* Documents to format: at most MaxFormatRows rows of the catalogue:       *)
(* connector stubs (indented by spaces or a tab, with and without trailing *)
(* spaces, CR-terminated, with a marker), box rows of several widths, a    *)
(* centred label, plain text, the empty line, a line of spaces and a row   *)
(* of box-drawing glyphs.                                                  *)

MaxFormatRows == 3

FormatRows ==
    {
     \*   |
     <<" "," ","|">>,
     \*    +  
     <<" "," "," ","+"," "," ">>,
     \*  <TAB>|
     <<" ","\t","|">>,
     \* <TAB>+
     <<"\t","+">>,
     \*   |<CR>
     <<" "," ","|","\r">>,
     \* {#color:red}  |
     <<"{","#","c","o","l","o","r",":","r","e","d","}"," "," ","|">>,
     \* +------+
     <<"+","-","-","-","-","-","-","+">>,
     \* | ab |
     <<"|"," ","a","b"," ","|">>,
     \* | ^hi^ |
     <<"|"," ","^","h","i","^"," ","|">>,
     \* some text
     <<"s","o","m","e"," ","t","e","x","t">>,
     \* (the empty line)
     <<>>,
     \* (three spaces)
     <<" ", " ", " ">>,
     \* U+2502, " a ", U+2502
     <<"U2502"," ","a"," ","U2502">>}

InitFormat ==
    /\ Idle
    /\ value = <<>>
    /\ text \in SeqsUpTo(FormatRows, MaxFormatRows)
    /\ text # <<>>

SpecFormat == InitFormat /\ [][AutoFormat]_vars

(* C10: autoFormat passes a bare connector stub through unchanged. Every    *)
(* marker-free line that is one or more whitespace graphemes, one "|" or    *)
(* "+", and then only whitespace, is emitted grapheme for grapheme at the   *)
(* same line position, whatever the other lines of its block are.  (A CR    *)
(* at the end of a line is the line's terminator, not part of the line.)    *)
IsBareStub(line) ==
    /\ MatchAll(line, 1) = <<>>
    /\ line # <<>> /\ line[Len(line)] # "\r"
    /\ \E k \in 2..Len(line) :
          /\ line[k] \in {"|", "+"}
          /\ \A j \in 1..Len(line) : j # k => line[j] \in {" ", "\t", "\r"}
C10_StubPassThrough ==
    pc = "formatted" =>
        /\ Len(formatted) = Len(text)
        /\ \A i \in 1..Len(text) : IsBareStub(text[i]) => formatted[i] = text[i]
\* A stub under a box whose label row is widened: the stub stays as it is.
C10_Witness ==
    /\ pc = "formatted"
    /\ text = <<<<"+","-","-","-","-","-","-","+">>, <<"|"," ","a","b"," ","|">>,
                <<" "," ","|">>>>
    /\ formatted[2] = <<"|"," ","a","b"," "," "," ","|">>
    /\ formatted[3] = <<" "," ","|">>

--------------------------------------------------------------------------
(* Documents for the per-line rules of autoFormat: at most MaxRuleRows     *)
(* rows of a catalogue holding a wide box edge, nested and indented box    *)
(* rows (one with trailing spaces), structural rows, blank rows, centred   *)
(* labels, a text row with and without a right wall, rows whose interior   *)
(* is a horizontal rule, rows of box-drawing glyphs, a row with a marker   *)
(* and a row indented by a tab.                                            *)

MaxRuleRows == 2

RuleRows ==
    {
     \* +----------+
     <<"+", "-", "-", "-", "-", "-", "-", "-", "-", "-", "-", "+">>,
     \* "  | ^ab |"
     <<" ", " ", "|", " ", "^", "a", "b", " ", "|">>,
     \* "  | ^ab |  "
     <<" ", " ", "|", " ", "^", "a", "b", " ", "|", " ", " ">>,
     \* +--v--+
     <<"+", "-", "-", "v", "-", "-", "+">>,
     \* +- -+
     <<"+", "-", " ", "-", "+">>,
     \* (the empty line)
     <<>>,
     \* (three spaces)
     <<" ", " ", " ">>,
     \* | ^hi^ |
     <<"|", " ", "^", "h", "i", "^", " ", "|">>,
     \* |^yo |
     <<"|", "^", "y", "o", " ", "|">>,
     \* ^top^
     <<"^", "t", "o", "p", "^">>,
     \* | ^^ |
     <<"|", " ", "^", "^", " ", "|">>,
     \* | Box |
     <<"|", " ", "B", "o", "x", " ", "|">>,
     \* +--^--+
     <<"+", "-", "-", "^", "-", "-", "+">>,
     \* +, three U+2550, +
     <<"+", "U2550", "U2550", "U2550", "+">>,
     \* >, two U+2500, U+2510
     <<">", "U2500", "U2500", "U2510">>,
     \* U+2550, U+2500, U+2510
     <<"U2550", "U2500", "U2510">>,
     \* U+2502, " ^r^ ", U+2502
     <<"U2502", " ", "^", "r", "^", " ", "U2502">>,
     \* | Box
     <<"|", " ", "B", "o", "x">>,
     \* {#color:red}| ^m^ |
     <<"{", "#", "c", "o", "l", "o", "r", ":", "r", "e", "d", "}",
       "|", " ", "^", "m", "^", " ", "|">>,
     \* <TAB>| x |
     <<"\t", "|", " ", "x", " ", "|">>}

InitRules ==
    /\ Idle
    /\ value = <<>>
    /\ text \in SeqsUpTo(RuleRows, MaxRuleRows)
    /\ text # <<>>

SpecRules == InitRules /\ [][AutoFormat]_vars

\* The lines of text as autoFormat measures them, and the mode it detects.
RuleLines == CleanLines(ParseDocument(text))
RuleRich == detectRichMode(RuleLines)
\* A line that holds no marker and no CR: its characters are what is measured.
IsPlainLine(i) ==
    /\ MatchAll(text[i], 1) = <<>>
    /\ \A k \in 1..Len(text[i]) : text[i][k] # "\r"
IsBlankLine(i) == Trim(RuleLines[i]) = <<>>
\* Lines i and j lie in one block: no blank line from one to the other.
SameBlock(i, j) == \A k \in Min(i, j)..Max(i, j) : ~IsBlankLine(k)
LineWidth(i) == getTextDisplayWidth(RuleLines[i], RuleRich)
\* The largest display width among the lines of the block of line i.
BlockMax(i) ==
    LET widths == {LineWidth(j) : j \in {j \in 1..Len(text) : SameBlock(i, j)}}
    IN  CHOOSE w \in widths : \A u \in widths : u <= w

(* C11: nested-box exemption.  A line that is indented, whose first and     *)
(* last visible (non-whitespace) characters are structural in the detected  *)
(* mode, and that is narrower than the widest line of its block, is         *)
(* emitted by autoFormat exactly as it was given.                           *)
IsNestedBoxLine(i) ==
    LET line    == text[i]
        visible == Trim(line)
    IN  /\ IsPlainLine(i)
        /\ ~IsBlankLine(i)
        /\ IsSpace(line[1])
        /\ Len(visible) >= 2
        /\ isStructure(visible[1], RuleRich)
        /\ isStructure(visible[Len(visible)], RuleRich)
        /\ LineWidth(i) < BlockMax(i)
C11_NestedBoxUnchanged ==
    pc = "formatted" =>
        \A i \in 1..Len(text) : IsNestedBoxLine(i) => formatted[i] = text[i]


(* C12: a structural-only line is passed through.  Every non-blank line     *)
(* made only of spaces and of characters that are structural in the         *)
(* detected mode is emitted by autoFormat exactly as it was given, also     *)
(* when it is narrower than the widest line of its block.                   *)
IsStructuralRow(i) ==
    /\ ~IsBlankLine(i)
    /\ \A k \in 1..Len(text[i]) :
          text[i][k] = " " \/ isStructure(text[i][k], RuleRich)
C12_StructuralLineUnchanged ==
    pc = "formatted" =>
        \A i \in 1..Len(text) : IsStructuralRow(i) => formatted[i] = text[i]
\* "+--v--+" under the wider "+----------+" is not filled up to its width.
C12_Witness ==
    /\ pc = "formatted"
    /\ text = <<<<"+", "-", "-", "-", "-", "-", "-", "-", "-", "-", "-", "+">>,
                <<"+", "-", "-", "v", "-", "-", "+">>>>
    /\ IsStructuralRow(2)
    /\ LineWidth(2) < BlockMax(2)
    /\ formatted[2] = <<"+", "-", "-", "v", "-", "-", "+">>


(* C13 as stated: autoFormat preserves blank lines verbatim.  The output    *)
(* has as many lines as the input, and every input line that is empty or    *)
(* holds only whitespace is emitted at its position with exactly its        *)
(* original characters.                                                     *)
C13_BlankLinesVerbatim ==
    pc = "formatted" =>
        /\ Len(formatted) = Len(text)
        /\ \A i \in 1..Len(text) : Trim(text[i]) = <<>> => formatted[i] = text[i]
(* C13 as the code has it: autoFormat keeps the position of blank lines.    *)
(* The output has as many lines as the input; every input line that is      *)
(* empty or holds only whitespace is emitted at its position as the empty   *)
(* line; and every line with visible characters is emitted as a line with   *)
(* visible characters, so that the gaps between blocks keep their number    *)
(* of lines.                                                                *)
C13_BlankLinesKept ==
    pc = "formatted" =>
        /\ Len(formatted) = Len(text)
        /\ \A i \in 1..Len(text) :
              /\ Trim(text[i]) = <<>> => formatted[i] = <<>>
              /\ ~IsBlankLine(i) => Trim(formatted[i]) # <<>>
\* Two box rows with a line of three spaces between them.
C13_Witness ==
    /\ pc = "formatted"
    /\ text = <<<<"|", " ", "a", "b", " ", "|">>, <<" ", " ", " ">>,
                <<"+", "-", "-", "-", "-", "-", "-", "+">>>>
    /\ formatted = <<<<"|", " ", "a", "b", " ", "|">>, <<>>,
                     <<"+", "-", "-", "-", "-", "-", "-", "+">>>>

--------------------------------------------------------------------------
(* render with and without a DOM document: at most MaxEnvRows rows of a    *)
(* catalogue of broken box geometry (open edges, a wall without a box, a   *)
(* lone corner or arrowhead) and malformed markers (unsafe value, no       *)
(* closing brace, no kind), in an environment that may lack the document.  *)

MaxEnvRows == 2

EnvRows ==
    {
     \* +--+
     <<"+", "-", "-", "+">>,
     \* | a
     <<"|", " ", "a">>,
     \* +-
     <<"+", "-">>,
     \* {#bg:url(js)}x
     <<"{", "#", "b", "g", ":", "u", "r", "l", "(", "j", "s", ")", "}", "x">>,
     \* {#color:
     <<"{", "#", "c", "o", "l", "o", "r", ":">>,
     \* }{#:}
     <<"}", "{", "#", ":", "}">>,
     \* ^
     <<"^">>,
     \* v>
     <<"v", ">">>,
     \* U+2502, a space, U+2510
     <<"U2502", " ", "U2510">>,
     \* {#stroke:red}|
     <<"{", "#", "s", "t", "r", "o", "k", "e", ":", "r", "e", "d", "}", "|">>}

InitEnv ==
    /\ pc = "input"
    /\ safe = FALSE /\ parsed = <<>> /\ reparsed = <<>> /\ injected = <<>>
    /\ svg = NoSvg /\ formatted = <<>>
    /\ value = <<>>
    /\ document \in BOOLEAN
    /\ cursor = <<0, 0>> /\ neighbor = -1 /\ foundRuns = <<>> /\ foundBoxes = <<>>
    /\ enclosingBox = 0
    /\ text \in SeqsUpTo(EnvRows, MaxEnvRows)
    /\ text # <<>>

SpecEnv == InitEnv /\ [][Render]_vars

(* C14: render fails with the environment error exactly when there is no   *)
(* DOM document, and then before it has parsed or drawn anything; with a    *)
(* document it returns a drawing (a path, rectangles and text nodes) for    *)
(* every text, whatever its markers and its geometry.                       *)
C14_EnvironmentError ==
    /\ pc \in {"input", "error", "rendered"}
    /\ pc # "input" => (pc = "error" <=> ~document)
    /\ pc = "error" => parsed = <<>> /\ svg = NoSvg
    /\ pc = "rendered" =>
          /\ DOMAIN svg = {"d", "rects", "texts"}
          /\ Len(parsed) = Len(text)
          /\ \A k \in 1..Len(svg.texts) : svg.texts[k].content # <<>>
\* Without a document nothing of a two-row diagram is parsed or drawn.
C14_Witness ==
    /\ pc = "error"
    /\ ~document
    /\ text = <<<<"+", "-", "-", "+">>, <<"|", " ", "a">>>>
    /\ parsed = <<>>
    /\ svg = NoSvg
\* With a document the same diagram is drawn.
C14_WitnessDrawn ==
    /\ pc = "rendered"
    /\ document
    /\ text = <<<<"+", "-", "-", "+">>, <<"|", " ", "a">>>>
    /\ svg.d # <<>>
    /\ Len(svg.texts) = 1

--------------------------------------------------------------------------
(* ASCII diagrams and their transliteration into box-drawing glyphs: at    *)
(* most MaxModeRows rows of a catalogue of box edges of two widths, an     *)
(* edge with a junction, box rows with plain, centred and aligned text,    *)
(* and a connector stub.                                                   *)

MaxModeRows == 3

ModeRows ==
    {
     \* +---+
     <<"+", "-", "-", "-", "+">>,
     \* +-----+
     <<"+", "-", "-", "-", "-", "-", "+">>,
     \* +--+--+
     <<"+", "-", "-", "+", "-", "-", "+">>,
     \* | a |
     <<"|", " ", "a", " ", "|">>,
     \* | ^ab^ |
     <<"|", " ", "^", "a", "b", "^", " ", "|">>,
     \* | <L R> |
     <<"|", " ", "<", "L", " ", "R", ">", " ", "|">>,
     \* "   |"
     <<" ", " ", " ", "|">>}

InitModes ==
    /\ Idle
    /\ value = <<>>
    /\ text \in SeqsUpTo(ModeRows, MaxModeRows)
    /\ text # <<>>

SpecModes == InitModes /\ [][FormatAndRender]_vars

\* The glyph for the "+" at row r, column c (1-based) of doc: the corner or
\* junction with the arms that the neighbouring edge characters call for.
RichJoint(doc, r, c) ==
    LET At(i, j) == IF i \in 1..Len(doc) /\ j \in 1..Len(doc[i]) THEN doc[i][j] ELSE " "
        up    == At(r - 1, c) \in {"|", "+"}
        down  == At(r + 1, c) \in {"|", "+"}
        left  == At(r, c - 1) \in {"-", "+"}
        right == At(r, c + 1) \in {"-", "+"}
    IN  IF ~up /\ down /\ ~left /\ right THEN "U250C"
        ELSE IF ~up /\ down /\ left /\ ~right THEN "U2510"
        ELSE IF up /\ ~down /\ ~left /\ right THEN "U2514"
        ELSE IF up /\ ~down /\ left /\ ~right THEN "U2518"
        ELSE IF up /\ down /\ ~left /\ right THEN "U251C"
        ELSE IF up /\ down /\ left /\ ~right THEN "U2524"
        ELSE IF ~up /\ down /\ left /\ right THEN "U252C"
        ELSE IF up /\ ~down /\ left /\ right THEN "U2534"
        ELSE "U253C"
\* The rich-mode transliteration of an ASCII diagram.
RichForm(doc) ==
    [r \in 1..Len(doc) |->
        [c \in 1..Len(doc[r]) |->
            IF doc[r][c] = "-" THEN "U2500"
            ELSE IF doc[r][c] = "|" THEN "U2502"
            ELSE IF doc[r][c] = "+" THEN RichJoint(doc, r, c)
            ELSE doc[r][c]]]
\* What is seen of the text nodes: content, position and anchor.
ShownTexts(texts) ==
    [k \in 1..Len(texts) |->
        [content |-> texts[k].content, x |-> texts[k].x, y |-> texts[k].y,
         anchor |-> texts[k].anchor]]

(* C15: both modes render identically after autoFormat.  For an ASCII       *)
(* diagram and its transliteration into box-drawing glyphs,                 *)
(* render(autoFormat(.)) gives the same path commands and the same text     *)
(* nodes (content, position, anchor).                                       *)
C15_ModesRenderAlike ==
    pc = "drawn" =>
        LET rich == render(autoFormat(RichForm(text))) IN
        /\ svg.d = rich.d
        /\ ShownTexts(svg.texts) = ShownTexts(rich.texts)

--------------------------------------------------------------------------
(* Rows with aligned tokens: at most MaxAlignRows rows of a catalogue of   *)
(* tokens with a leading "<" at the start, in the middle and at the end of *)
(* a walled zone, after another token, outside any wall, with a trailing   *)
(* ">", with a space inside, without text, after and around a colour       *)
(* marker, in rich mode, next to a plain label and a box edge.             *)

MaxAlignRows == 2

AlignRows ==
    {
     \* "| <ab    |"
     <<"|", " ", "<", "a", "b", " ", " ", " ", " ", "|">>,
     \* "|    <ab |"
     <<"|", " ", " ", " ", " ", "<", "a", "b", " ", "|">>,
     \* "| x  <ab |"
     <<"|", " ", "x", " ", " ", "<", "a", "b", " ", "|">>,
     \* "  <ab"
     <<" ", " ", "<", "a", "b">>,
     \* "| <ab> |"
     <<"|", " ", "<", "a", "b", ">", " ", "|">>,
     \* "| <a b |"
     <<"|", " ", "<", "a", " ", "b", " ", "|">>,
     \* "| < |"
     <<"|", " ", "<", " ", "|">>,
     \* "|{#color:red} <ab |"
     <<"|", "{", "#", "c", "o", "l", "o", "r", ":", "r", "e", "d", "}",
       " ", "<", "a", "b", " ", "|">>,
     \* "| <a{#color:red}b |"
     <<"|", " ", "<", "a", "{", "#", "c", "o", "l", "o", "r", ":", "r", "e", "d", "}",
       "b", " ", "|">>,
     \* "| plain |"
     <<"|", " ", "p", "l", "a", "i", "n", " ", "|">>,
     \* U+2502, "   <r ", U+2502
     <<"U2502", " ", " ", " ", "<", "r", " ", "U2502">>,
     \* "+--------+"
     <<"+", "-", "-", "-", "-", "-", "-", "-", "-", "+">>}

InitAlign ==
    /\ Idle
    /\ value = <<>>
    /\ text \in SeqsUpTo(AlignRows, MaxAlignRows)
    /\ text # <<>>

SpecAlign == InitAlign /\ [][Render]_vars

\* The tokens of the zones of the rendered text that carry a leading "<" and
\* have text after it: row and zone of the token, the column of its "<",
\* the columns of the graphemes after the "<", and the token itself.
LeftTokens ==
    LET rich == detectRichMode(CleanLines(parsed))
        OfZone(r, zone) ==
            LET cells == ZoneCellMap(CenterGrid, rich, r, zone)
                raw   == [k \in 1..Len(cells) |-> CenterGrid[r + 1][cells[k] + 1].char]
                toks  == MatchTokens(raw, 1)
            IN  IF StartsWith(Trim(raw), "^") THEN {}
                ELSE {[row |-> r, zone |-> zone, token |-> toks[k].text,
                       markerCol |-> cells[toks[k].index + 1],
                       cols |-> {cells[j] : j \in (toks[k].index + 2)..
                                                  (toks[k].index + Len(toks[k].text))}] :
                         k \in {k \in 1..Len(toks) :
                                   /\ toks[k].text[1] = "<"
                                   /\ Len(toks[k].text) > 1
                                   /\ toks[k].text # <<"<", ">">>}}
    IN  UNION {UNION {OfZone(r, Zones(CenterGrid, rich, r)[z]) :
                         z \in 1..Len(Zones(CenterGrid, rich, r))} :
                  r \in 0..(Len(parsed) - 1)}
\* The text nodes made of graphemes of the token tk, and the first of them.
NodesOf(tk) == {n \in 1..Len(svg.texts) : svg.texts[n].row = tk.row /\ svg.texts[n].col \in tk.cols}
FirstNodesOf(tk) ==
    {n \in NodesOf(tk) : \A m \in NodesOf(tk) : svg.texts[n].col <= svg.texts[m].col}
EndsWithRight(tk) == tk.token[Len(tk.token)] = ">"

(* C16 as stated: a token with a leading "<" is rendered with the marker    *)
(* stripped, anchor start, and its x at the left pixel edge of the cell     *)
(* where the token starts.                                                  *)
C16_LeftTokenAtOwnColumn ==
    pc = "rendered" =>
        \A tk \in LeftTokens :
            /\ Cardinality(FirstNodesOf(tk)) = 1
            /\ \A n \in FirstNodesOf(tk) :
                  /\ svg.texts[n].content[1] = tk.token[2]
                  /\ svg.texts[n].anchor = "start"
                  /\ svg.texts[n].x = CenterGrid[tk.row + 1][tk.markerCol + 1].x
(* C16 as the code has it: a token with a leading "<" and no trailing ">"   *)
(* is rendered with the marker stripped and anchor start, and its x is the  *)
(* left pixel bound of its zone plus 0.8 of the cell width, wherever in the *)
(* zone the token stands; the nodes of the token together hold the token's  *)
(* text after the "<".                                                      *)
C16_LeftTokenAtZoneBound ==
    pc = "rendered" =>
        \A tk \in LeftTokens :
            ~EndsWithRight(tk) =>
                /\ Cardinality(FirstNodesOf(tk)) = 1
                /\ \A n \in FirstNodesOf(tk) :
                      /\ svg.texts[n].col = tk.markerCol + 1
                      /\ svg.texts[n].content =
                             SubSeq(tk.token, 2, 1 + Len(svg.texts[n].content))
                      /\ svg.texts[n].x = tk.zone.leftX + (cw * 8) \div 10
                /\ \A n \in NodesOf(tk) :
                      /\ svg.texts[n].anchor = "start"
                      /\ svg.texts[n].content # <<>>
                      /\ svg.texts[n].content =
                             SubSeq(tk.token, svg.texts[n].col - tk.markerCol + 1,
                                    svg.texts[n].col - tk.markerCol
                                        + Len(svg.texts[n].content))
                /\ \A c \in tk.cols : \E n \in NodesOf(tk) :
                      /\ svg.texts[n].col <= c
                      /\ c < svg.texts[n].col + Len(svg.texts[n].content)
\* "|    <ab |": the token stands at column 5 (x = 72), the node "ab" is
\* put at the zone's left bound 24 plus 9.6.
C16_Witness ==
    /\ pc = "rendered"
    /\ text = <<<<"|", " ", " ", " ", " ", "<", "a", "b", " ", "|">>>>
    /\ \E tk \in LeftTokens : tk.markerCol = 5 /\ ~EndsWithRight(tk)
    /\ Len(svg.texts) = 1
    /\ svg.texts[1].content = <<"a", "b">>
    /\ svg.texts[1].anchor = "start"
    /\ svg.texts[1].x = 336


\* How the per-line rules read line i of text: its indentation, the
\* structural character at its start and at its end (the empty sequence
\* when there is none), and the interior between them.
RuleIndent(i) == SubSeq(text[i], 1, SkipSpaces(text[i], 1) - 1)
RuleBody(i) == SubSeq(text[i], Len(RuleIndent(i)) + 1, Len(text[i]))
RulePrefix(i) ==
    IF RuleBody(i) # <<>> /\ isStructure(RuleBody(i)[1], RuleRich)
    THEN <<RuleBody(i)[1]>> ELSE <<>>
RuleAfterPrefix(i) == SubSeq(RuleBody(i), Len(RulePrefix(i)) + 1, Len(RuleBody(i)))
RuleSuffix(i) ==
    LET rest == RuleAfterPrefix(i) IN
    IF rest # <<>> /\ isStructure(rest[Len(rest)], RuleRich) THEN <<rest[Len(rest)]>> ELSE <<>>
RuleInterior(i) ==
    SubSeq(RuleAfterPrefix(i), 1, Len(RuleAfterPrefix(i)) - Len(RuleSuffix(i)))
\* "^...^" of length > 2, or "^..." other than "^^".
IsCenteringMarker(t) ==
    /\ Len(t) > 1
    /\ t[1] = "^"
    /\ t # <<"^", "^">>
\* Line i is passed through by one of the rules 1 to 4.
PassedByRules1to4(i) ==
    \/ isConnectorStub(text[i])
    \/ IsStructuralRow(i)
    \/ /\ RulePrefix(i) = <<>>
       /\ ~isStructure(RuleBody(i)[Len(RuleBody(i))], RuleRich)
       /\ \A k \in 1..Len(RuleBody(i)) : RuleBody(i)[k] # "^"
    \/ /\ RulePrefix(i) # <<>> /\ RuleSuffix(i) # <<>>
       /\ RuleRich \/ RuleIndent(i) # <<>>
       /\ LineWidth(i) < BlockMax(i)
\* A line the rules 5 to 7 are about: no marker, not blank, not passed
\* through by the rules 1 to 4.
ReachesRule5(i) == IsPlainLine(i) /\ ~IsBlankLine(i) /\ ~PassedByRules1to4(i)

(* C17: the centring rule of autoFormat.  For a line that is not passed     *)
(* through by the rules 1 to 4 and whose trimmed interior is a centering    *)
(* marker, the output is indentation, prefix, L spaces, the trimmed         *)
(* interior, R spaces, suffix, where T = block maximum - width of           *)
(* (indentation, prefix, suffix) - width of the trimmed interior is not     *)
(* negative, L = T div 2 and R = T - L; so R - L is 0 or 1 and the output   *)
(* is as wide as the widest line of its block.                              *)
C17_CentringRule ==
    pc = "formatted" =>
        \A i \in 1..Len(text) :
            ReachesRule5(i) /\ IsCenteringMarker(Trim(RuleInterior(i))) =>
                LET content == Trim(RuleInterior(i))
                    frame   == RuleIndent(i) \o RulePrefix(i) \o RuleSuffix(i)
                    T == BlockMax(i) - getTextDisplayWidth(frame, RuleRich)
                             - getTextDisplayWidth(content, RuleRich)
                    L == T \div 2
                    R == T - L
                IN  /\ T >= 0
                    /\ R - L \in {0, 1}
                    /\ formatted[i] = RuleIndent(i) \o RulePrefix(i) \o Repeat(" ", L)
                                          \o content \o Repeat(" ", R) \o RuleSuffix(i)
                    /\ getTextDisplayWidth(formatted[i], RuleRich) = BlockMax(i)
\* "|^yo |" under the 12 wide "+----------+": T = 12 - 2 - 3 = 7, so three
\* spaces go to the left of "^yo" and four to its right.
C17_Witness ==
    /\ pc = "formatted"
    /\ text = <<<<"+", "-", "-", "-", "-", "-", "-", "-", "-", "-", "-", "+">>,
                <<"|", "^", "y", "o", " ", "|">>>>
    /\ ReachesRule5(2)
    /\ IsCenteringMarker(Trim(RuleInterior(2)))
    /\ formatted[2] = <<"|", " ", " ", " ", "^", "y", "o", " ", " ", " ", " ", "|">>


\* The interior t is a horizontal-rule pattern: rule characters only, apart
\* from the characters + v ^ < > | which the rule does not look at.
IsRulePattern(t) ==
    /\ \E k \in 1..Len(t) : t[k] \in {"-", "U2500", "U2550"}
    /\ \A k \in 1..Len(t) :
          t[k] \in {"-", "U2500", "U2550"} \cup {"+", "v", "^", "<", ">", "|"}
\* The dominant rule character of t: the double rule if t holds one, else
\* the light rule if t holds one, else the hyphen.
DominantRule(t) ==
    IF \E k \in 1..Len(t) : t[k] = "U2550" THEN "U2550"
    ELSE IF \E k \in 1..Len(t) : t[k] = "U2500" THEN "U2500"
    ELSE "-"

(* C18: the rule fill of autoFormat.  A line that reaches the rules 5 to 7, *)
(* is not a centering line, has a structural suffix, is narrower than the   *)
(* widest line of its block and whose interior is a horizontal-rule         *)
(* pattern is padded right before its suffix with copies of one rule        *)
(* character (the double rule if the interior holds one, else the light     *)
(* rule if it holds one, else the hyphen) until it is as wide as the block; *)
(* the suffix stays its last character.                                     *)
C18_RuleFill ==
    pc = "formatted" =>
        \A i \in 1..Len(text) :
            /\ ReachesRule5(i)
            /\ ~IsCenteringMarker(Trim(RuleInterior(i)))
            /\ RuleSuffix(i) # <<>>
            /\ LineWidth(i) < BlockMax(i)
            /\ IsRulePattern(RuleInterior(i))
            => /\ formatted[i] =
                      RuleIndent(i) \o RulePrefix(i) \o RuleInterior(i)
                          \o Repeat(DominantRule(RuleInterior(i)), BlockMax(i) - LineWidth(i))
                          \o RuleSuffix(i)
               /\ getTextDisplayWidth(formatted[i], RuleRich) = BlockMax(i)
               /\ formatted[i][Len(formatted[i])] = text[i][Len(text[i])]
\* A double and a light rule before a corner, under a 12 wide row: the fill
\* is the double rule, nine times.
C18_Witness ==
    /\ pc = "formatted"
    /\ text = <<<<"+", "-", "-", "-", "-", "-", "-", "-", "-", "-", "-", "+">>,
                <<"U2550", "U2500", "U2510">>>>
    /\ ReachesRule5(2)
    /\ IsRulePattern(RuleInterior(2))
    /\ formatted[2] = <<"U2550", "U2500"
                       , "U2550", "U2550", "U2550", "U2550", "U2550", "U2550", "U2550"
                       , "U2550", "U2550", "U2510">>
\* "+--^--+" under "+----------+": the fill is the hyphen.
C18_WitnessHyphen ==
    /\ pc = "formatted"
    /\ text = <<<<"+", "-", "-", "-", "-", "-", "-", "-", "-", "-", "-", "+">>,
                <<"+", "-", "-", "^", "-", "-", "+">>>>
    /\ formatted[2] = <<"+", "-", "-", "^", "-", "-", "-", "-", "-", "-", "-", "+">>


\* Line i reaches rule 7: it is not passed through by the rules 1 to 4, its
\* interior is neither a centering marker nor a horizontal-rule pattern.
ReachesRule7(i) ==
    /\ ReachesRule5(i)
    /\ ~IsCenteringMarker(Trim(RuleInterior(i)))
    /\ ~IsRulePattern(RuleInterior(i))

(* C19 as stated: the final rule of autoFormat.  A line that is not handled *)
(* by the rules 1 to 6, such as a text row between two walls in a wider     *)
(* block, is emitted exactly as it was given.                               *)
C19_TextLineUnchanged ==
    pc = "formatted" =>
        \A i \in 1..Len(text) : ReachesRule7(i) => formatted[i] = text[i]
(* C19 as the code has it: a line that is not handled by the rules 1 to 6   *)
(* is emitted as it was given when it has no structural suffix or is as     *)
(* wide as the widest line of its block; when it has a structural suffix    *)
(* and is narrower, spaces are inserted right before the suffix until the   *)
(* line is as wide as the block.                                            *)
C19_TextLineSpaceFill ==
    pc = "formatted" =>
        \A i \in 1..Len(text) :
            ReachesRule7(i) =>
                IF RuleSuffix(i) # <<>> /\ LineWidth(i) < BlockMax(i)
                THEN /\ formatted[i] =
                            RuleIndent(i) \o RulePrefix(i) \o RuleInterior(i)
                                \o Repeat(" ", BlockMax(i) - LineWidth(i)) \o RuleSuffix(i)
                     /\ getTextDisplayWidth(formatted[i], RuleRich) = BlockMax(i)
                ELSE formatted[i] = text[i]
\* "| Box |" under the 12 wide "+----------+" gets five spaces before its
\* right wall.
C19_Witness ==
    /\ pc = "formatted"
    /\ text = <<<<"+", "-", "-", "-", "-", "-", "-", "-", "-", "-", "-", "+">>,
                <<"|", " ", "B", "o", "x", " ", "|">>>>
    /\ ReachesRule7(2)
    /\ formatted[2] = <<"|", " ", "B", "o", "x", " ", " ", " ", " ", " ", " ", "|">>
\* "| Box", without a right wall, stays as it is.
C19_WitnessNoSuffix ==
    /\ pc = "formatted"
    /\ text = <<<<"+", "-", "-", "-", "-", "-", "-", "-", "-", "-", "-", "+">>,
                <<"|", " ", "B", "o", "x">>>>
    /\ ReachesRule7(2)
    /\ formatted[2] = <<"|", " ", "B", "o", "x">>

--------------------------------------------------------------------------
(* The sites of render that classify a "v" cell of an ASCII grid, for the  *)
(* documents of SpecPath.                                                  *)

\* The verdict of isAsciiVConnector for the cell at (r, c).
IsArrowhead(r, c) == isAsciiVConnector(Row(PathGrid, r), c, r, PathGrid)
\* Pass 1 joins the cell at (r, c) to the cell on its left or on its right.
JoinedHorizontally(r, c) ==
    LET row == Row(PathGrid, r) IN
    \/ c > 0 /\ canConnectHorizontally(row[c], row[c + 1], FALSE)
    \/ c + 1 < Len(row) /\ canConnectHorizontally(row[c + 1], row[c + 2], FALSE)
\* The chain walk of detectVerticalRuns extends some run into the cell.
EnteredByChain(r, c) ==
    LET runs == detectVerticalRuns(PathGrid, FALSE) IN
    \E n \in 1..Len(runs) : \E k \in 2..Len(runs[n].cells) :
        runs[n].cells[k] = Row(PathGrid, r)[c + 1]
\* Pass 3 leaves the cell out of the zone text.
SuppressedFromText(r, c) == isAsciiZoneConnector(PathGrid, FALSE, r, c)

(* C20: the arrowhead predicate is evaluated identically at every site.     *)
(* For every "v" cell of an ASCII grid, the cell is joined into a           *)
(* horizontal run, or entered by the chain of a vertical run, only if       *)
(* isAsciiVConnector holds for it, and it is left out of the zone text      *)
(* exactly if isAsciiVConnector holds for it.                               *)
C20_ArrowheadSitesAgree ==
    pc = "rendered" /\ ~detectRichMode(text) =>
        \A r \in 0..(Len(text) - 1) : \A c \in 0..(Len(text[r + 1]) - 1) :
            CharAt(PathGrid, r, c) = "v" =>
                /\ JoinedHorizontally(r, c) => IsArrowhead(r, c)
                /\ EnteredByChain(r, c) => IsArrowhead(r, c)
                /\ SuppressedFromText(r, c) <=> IsArrowhead(r, c)

--------------------------------------------------------------------------
(* findVerticalNeighbor on the cells of small diagrams: at most            *)
(* MaxNeighborRows rows of a catalogue with connectors at several columns, *)
(* alone and in pairs at equal distances, rules that connect neither way,  *)
(* a wide glyph before a connector, and light box glyphs.                  *)

MaxNeighborRows == 2

NeighborRows ==
    {<<"|">>,
     <<" ","|">>,
     <<" "," ","|">>,
     <<" "," "," ","|">>,
     <<"|"," ","|">>,
     <<"|","|","|">>,
     <<"+"," "," ","v">>,
     <<"-","-","-">>,
     <<"a","|">>,
     <<"U4E2D","|">>,
     <<"U2502">>,
     <<" ","U2502">>,
     <<"U2514","U2500","U2518">>,
     <<"U250C","U2500","U2510">>}

\* The grid render builds for a marker-free diagram of the catalogue.
NeighborGrid == BuildGrid(text, detectRichMode(text), <<>>, <<>>)

\* findVerticalNeighbor(cell, grid[rowIndex + 1], isRichMode) for a cell of
\* a row that has a row below it, as detectVerticalRuns calls it.
FindNeighbor ==
    /\ pc = "input"
    /\ \E rowIndex \in 0..(Len(text) - 2) :
       \E colIndex \in 0..(Len(text[rowIndex + 1]) - 1) :
           /\ cursor' = <<rowIndex, colIndex>>
           /\ neighbor' = findVerticalNeighbor(Row(NeighborGrid, rowIndex)[colIndex + 1],
                                               Row(NeighborGrid, rowIndex + 1),
                                               detectRichMode(text))
    /\ pc' = "neighbor"
    /\ UNCHANGED <<text, value, safe, parsed, reparsed, injected, svg, formatted, document,
                   foundRuns, foundBoxes, enclosingBox>>

InitNeighbor ==
    /\ Idle
    /\ value = <<>>
    /\ text \in SeqsUpTo(NeighborRows, MaxNeighborRows)
    /\ text # <<>>

SpecNeighbor == InitNeighbor /\ [][FindNeighbor]_vars

\* The cell findVerticalNeighbor was given, and the row below it.
CurrCell == Row(NeighborGrid, cursor[1])[cursor[2] + 1]
BelowRow == Row(NeighborGrid, cursor[1] + 1)

\* The distance of the cell at column k of the row below from the cell given.
CxDistance(k) == Abs(BelowRow[k + 1].cx - CurrCell.cx)

\* The cells of the row below that connect up, within a strict tolerance.
UpWithin(tolerance) ==
    {k \in 0..(Len(BelowRow) - 1) :
        /\ connectsUp(BelowRow[k + 1].char, detectRichMode(text))
        /\ CxDistance(k) < tolerance}

(* C21: findVerticalNeighbor returns null for a cell that cannot connect   *)
(* down; otherwise it returns a connects-up cell of the next row strictly  *)
(* within half a cell width, or, only if there is none, one strictly       *)
(* within two cell widths, in either case one at the least distance and,   *)
(* of the equally near, the earliest in the row; it returns null when      *)
(* neither tier has a cell, and never a cell two cell widths or more away. *)
C21_TwoTierNeighbour ==
    pc = "neighbor" =>
        LET tight   == UpWithin(cw \div 2)
            relaxed == UpWithin(2 * cw)
            tier    == IF tight # {} THEN tight ELSE relaxed
        IN  /\ ~connectsDown(CurrCell.char, detectRichMode(text)) => neighbor = -1
            /\ connectsDown(CurrCell.char, detectRichMode(text)) =>
                   /\ tier = {} => neighbor = -1
                   /\ tier # {} =>
                          /\ neighbor \in tier
                          /\ \A o \in tier :
                                 \/ CxDistance(neighbor) < CxDistance(o)
                                 \/ CxDistance(neighbor) = CxDistance(o) /\ neighbor <= o
            /\ neighbor # -1 => CxDistance(neighbor) < 2 * cw

\* A connector between two connectors of the row below, one column to each
\* side and none under it: the left one is returned.
C21_Witness ==
    /\ pc = "neighbor"
    /\ text = <<<<" ","|">>, <<"|"," ","|">>>>
    /\ cursor = <<0, 1>>
    /\ UpWithin(cw \div 2) = {}
    /\ UpWithin(2 * cw) = {0, 2}
    /\ neighbor = 0

--------------------------------------------------------------------------
(* detectRectangularBoxes on small diagrams: at most MaxBoxRows rows of a  *)
(* catalogue of box borders and box rows, narrow and wide, whole and       *)
(* broken, with shared walls, in ASCII and in light box glyphs.            *)

MaxBoxRows == 3

BoxRows ==
    {<<"+","-","+">>,
     <<"|"," ","|">>,
     <<"+"," ","+">>,
     <<"|"," "," ">>,
     <<"+","+">>,
     <<"+","-","+","-","+">>,
     <<"|"," ","|"," ","|">>,
     <<"|"," ","a"," ","|">>,
     <<"+","-","-","-","+">>,
     <<"U250C","U2500","U2510">>,
     <<"U2502"," ","U2502">>,
     <<"U2514","U2500","U2518">>}

\* detectRectangularBoxes(lines), on the clean lines as render passes them.
DetectBoxes ==
    /\ pc = "input"
    /\ foundBoxes' = detectRectangularBoxes(CleanLines(ParseDocument(text)))
    /\ pc' = "boxes"
    /\ UNCHANGED <<text, value, safe, parsed, reparsed, injected, svg, formatted, document,
                   cursor, neighbor, foundRuns, enclosingBox>>

InitBoxes ==
    /\ Idle
    /\ value = <<>>
    /\ text \in SeqsUpTo(BoxRows, MaxBoxRows)
    /\ text # <<>>

SpecBoxes == InitBoxes /\ [][DetectBoxes]_vars

\* The grapheme of the diagram at a row and a column, "" outside of it.
GlyphAt(row, col) ==
    IF row >= 0 /\ row < Len(text) /\ col >= 0 /\ col < Len(text[row + 1])
    THEN text[row + 1][col + 1]
    ELSE ""

\* The columns of the rows of the diagram.
BoxColumns == UNION {0..(Len(text[i]) - 1) : i \in 1..Len(text)}

\* A fully validated rectangle of the diagram.
ValidRectangle(top, left, bottom, right) ==
    /\ right >= left + 2
    /\ bottom >= top + 2
    /\ GlyphAt(top, left) \in {"+", "U250C"}
    /\ GlyphAt(top, right) \in {"+", "U2510"}
    /\ GlyphAt(bottom, left) \in {"+", "U2514"}
    /\ GlyphAt(bottom, right) \in {"+", "U2518"}
    /\ \A x \in (left + 1)..(right - 1) :
          /\ GlyphAt(top, x) \in {"-", "U2500"}
          /\ GlyphAt(bottom, x) \in {"-", "U2500"}
    /\ \A y \in (top + 1)..(bottom - 1) :
          /\ GlyphAt(y, left) \in {"|", "U2502", "+", "U251C", "U2524"}
          /\ GlyphAt(y, right) \in {"|", "U2502", "+", "U251C", "U2524"}

(* C22: detectRectangularBoxes returns exactly the fully validated         *)
(* rectangles: at least two columns and two rows apart, the four corners   *)
(* corner glyphs, horizontal edge glyphs between the corners of the top    *)
(* and of the bottom row, a vertical edge glyph at both columns of every   *)
(* row between; each is returned once, with area (right - left) x          *)
(* (bottom - top).                                                         *)
C22_ExactlyValidRectangles ==
    pc = "boxes" =>
        /\ \A k \in 1..Len(foundBoxes) :
              /\ ValidRectangle(foundBoxes[k].top, foundBoxes[k].left,
                                foundBoxes[k].bottom, foundBoxes[k].right)
              /\ foundBoxes[k].area = (foundBoxes[k].right - foundBoxes[k].left)
                                      * (foundBoxes[k].bottom - foundBoxes[k].top)
              /\ \A j \in 1..Len(foundBoxes) :
                    (/\ foundBoxes[j].top = foundBoxes[k].top
                     /\ foundBoxes[j].left = foundBoxes[k].left
                     /\ foundBoxes[j].bottom = foundBoxes[k].bottom
                     /\ foundBoxes[j].right = foundBoxes[k].right) => j = k
        /\ \A top \in 0..(Len(text) - 1), bottom \in 0..(Len(text) - 1) :
           \A left \in BoxColumns, right \in BoxColumns :
              ValidRectangle(top, left, bottom, right) =>
                  \E k \in 1..Len(foundBoxes) :
                      /\ foundBoxes[k].top = top /\ foundBoxes[k].left = left
                      /\ foundBoxes[k].bottom = bottom /\ foundBoxes[k].right = right

\* A box whose top border is broken stands over a whole one: neither it nor
\* the rectangle spanning both is returned, the lower box is not there (it
\* has two rows only), and nothing is returned.
C22_WitnessBroken ==
    /\ pc = "boxes"
    /\ text = <<<<"+"," ","+">>, <<"|"," ","|">>, <<"+","-","+">>>>
    /\ foundBoxes = <<>>

\* Two boxes side by side that share a wall: the two are returned, and not
\* the rectangle around both, whose borders have a corner glyph in them.
C22_Witness ==
    /\ pc = "boxes"
    /\ text = <<<<"+","-","+","-","+">>, <<"|"," ","|"," ","|">>, <<"+","-","+","-","+">>>>
    /\ Len(foundBoxes) = 2
    /\ foundBoxes[1].left = 0 /\ foundBoxes[1].right = 2 /\ foundBoxes[1].area = 4
    /\ foundBoxes[2].left = 2 /\ foundBoxes[2].right = 4 /\ foundBoxes[2].area = 4

--------------------------------------------------------------------------
(* detectVerticalRuns on small diagrams: at most MaxRunRows rows of a      *)
(* catalogue of connectors at several columns, alone and in pairs, a box   *)
(* border, a rule, an arrowhead and light box glyphs.                      *)

MaxRunRows == 3

RunRows ==
    {<<"|">>,
     <<" ","|">>,
     <<" ","|"," ">>,
     <<"|"," ","|">>,
     <<" "," ","|">>,
     <<"+","-","+">>,
     <<"-","-","-">>,
     <<" ","v">>,
     <<"U2502">>,
     <<" ","U2502">>,
     <<"U2514","U2500","U2518">>}

\* The grid of render after the stroked perimeters have been tagged.
RenderGrid(doc) ==
    LET parsedLines == ParseDocument(doc)
        lines       == CleanLines(parsedLines)
        boxes       == detectRectangularBoxes(lines)
    IN  BuildGrid(lines, detectRichMode(lines), BoxStyles(parsedLines, boxes), boxes)

\* detectVerticalRuns(grid, isRichMode), on the grid as render passes it.
DetectRuns ==
    /\ pc = "input"
    /\ foundRuns' = detectVerticalRuns(RenderGrid(text),
                                       detectRichMode(CleanLines(ParseDocument(text))))
    /\ pc' = "runs"
    /\ UNCHANGED <<text, value, safe, parsed, reparsed, injected, svg, formatted, document,
                   cursor, neighbor, foundBoxes, enclosingBox>>

InitRuns ==
    /\ Idle
    /\ value = <<>>
    /\ text \in SeqsUpTo(RunRows, MaxRunRows)
    /\ text # <<>>

SpecRuns == InitRuns /\ [][DetectRuns]_vars

\* Two cells of a grid are one cell when they stand at the same place.
SameCell(a, b) == a.x = b.x /\ a.y = b.y

(* C23: detectVerticalRuns never puts the same cell into two different     *)
(* runs: two runs started at different cells never merge into a common     *)
(* cell.                                                                   *)
C23_NoCellInTwoRuns ==
    pc = "runs" =>
        \A j \in 1..Len(foundRuns), k \in 1..Len(foundRuns) :
            j # k =>
                \A m \in 1..Len(foundRuns[j].cells), n \in 1..Len(foundRuns[k].cells) :
                    ~SameCell(foundRuns[j].cells[m], foundRuns[k].cells[n])

\* What remains of C23: a cell a run starts at stands in no other run, and
\* no cell stands twice in one run.
C23_RunStartsAreApart ==
    pc = "runs" =>
        \A j \in 1..Len(foundRuns), k \in 1..Len(foundRuns) :
            /\ j # k =>
                  \A n \in 1..Len(foundRuns[k].cells) :
                      ~SameCell(foundRuns[j].cells[1], foundRuns[k].cells[n])
            /\ \A m \in 1..Len(foundRuns[j].cells), n \in 1..Len(foundRuns[j].cells) :
                  SameCell(foundRuns[j].cells[m], foundRuns[j].cells[n]) => m = n

(* C24: every cell of a run returned by detectVerticalRuns has its cx      *)
(* equal to the cx of the run.                                             *)
C24_RunCellsShareCx ==
    pc = "runs" =>
        \A k \in 1..Len(foundRuns) :
            \A n \in 1..Len(foundRuns[k].cells) :
                foundRuns[k].cells[n].cx = foundRuns[k].cx

--------------------------------------------------------------------------
(* autoFormat applied to its own output: at most MaxReformatRows rows of   *)
(* a catalogue of marker-free lines: borders, rows with and without walls  *)
(* and centring markers, a stub, a line ending in a carriage return, the   *)
(* empty line and a rich row.                                              *)

MaxReformatRows == 2

ReformatRows ==
    {<<"+","-","-","-","-","-","-","+">>,
     <<"+","-","-","+">>,
     <<"^","a","b","^">>,
     <<"^","a","b">>,
     <<"|","^","a","b","^","|">>,
     <<"|"," ","a","b"," ","|">>,
     <<"|"," ","B","o","x">>,
     <<"s","o","m","e"," ","t","e","x","t">>,
     <<" "," ","|">>,
     <<" "," ","|","\r">>,
     <<>>,
     <<"U2502"," ","^","r","^"," ","U2502">>}

\* autoFormat(formatted): the formatter applied to what it returned.
Reformat ==
    /\ pc = "formatted"
    /\ text' = formatted
    /\ formatted' = autoFormat(formatted)
    /\ pc' = "reformatted"
    /\ UNCHANGED <<value, safe, parsed, reparsed, injected, svg, document,
                   cursor, neighbor, foundRuns, foundBoxes, enclosingBox>>

InitReformat ==
    /\ Idle
    /\ value = <<>>
    /\ text \in SeqsUpTo(ReformatRows, MaxReformatRows)
    /\ text # <<>>

SpecReformat == InitReformat /\ [][AutoFormat \/ Reformat]_vars

(* C25: autoFormat is idempotent on marker-free text: formatting what      *)
(* autoFormat returned gives it back unchanged, also for a block with a    *)
(* centred line that has no structural prefix.                             *)
C25_AutoFormatIdempotent ==
    pc = "reformatted" => formatted = text

--------------------------------------------------------------------------
(* detectVerticalRuns on diagrams with a stroke-styled box: at most        *)
(* MaxStrokedRows rows of a catalogue with a box border, a box row with    *)
(* and without a stroke marker, and connectors under the left and the      *)
(* right wall.                                                             *)

MaxStrokedRows == 4

StrokedRows ==
    {<<"+","-","+">>,
     <<"|","{","#","s","t","r","o","k","e",":","r","e","d","}"," ","|">>,
     <<"|"," ","|">>,
     <<"|">>,
     <<" "," ","|">>,
     <<" ","v">>}

InitStroked ==
    /\ Idle
    /\ value = <<>>
    /\ text \in SeqsUpTo(StrokedRows, MaxStrokedRows)
    /\ text # <<>>

SpecStroked == InitStroked /\ [][DetectRuns]_vars

\* The grid and the mode detectVerticalRuns was given.
RunGrid == RenderGrid(text)
RunRich == detectRichMode(CleanLines(ParseDocument(text)))

\* A cell that may pass a connection on: one that connects up or down and,
\* if it is an ASCII v, is an arrowhead by isAsciiVConnector.
IsValidConnector(rowIndex, colIndex) ==
    LET row  == Row(RunGrid, rowIndex)
        cell == row[colIndex + 1]
    IN  /\ connectsDown(cell.char, RunRich) \/ connectsUp(cell.char, RunRich)
        /\ (~RunRich /\ cell.char = "v") => isAsciiVConnector(row, colIndex, rowIndex, RunGrid)

\* Two cells stand one after the other in some returned run.
ConsecutiveInSomeRun(a, b) ==
    \E k \in 1..Len(foundRuns) :
        \E n \in 1..(Len(foundRuns[k].cells) - 1) :
            /\ SameCell(foundRuns[k].cells[n], a)
            /\ SameCell(foundRuns[k].cells[n + 1], b)

\* The vertical connections of the grid: a valid connector and the cell
\* findVerticalNeighbor finds for it in the next row, as <<row, col, col>>.
VerticalConnections ==
    UNION {{<<r, c, findVerticalNeighbor(Row(RunGrid, r)[c + 1], Row(RunGrid, r + 1), RunRich)>> :
                c \in {k \in 0..(Len(Row(RunGrid, r)) - 1) :
                          /\ IsValidConnector(r, k)
                          /\ findVerticalNeighbor(Row(RunGrid, r)[k + 1],
                                                  Row(RunGrid, r + 1), RunRich) # -1}} :
            r \in 0..(Len(RunGrid) - 2)}

(* C26: every vertical connection is drawn: a valid connector and the      *)
(* cell findVerticalNeighbor finds for it in the next row are consecutive  *)
(* cells of some returned run, unless both are owned by a stroked box      *)
(* perimeter; so a connector hanging below the bottom border of a box with *)
(* a stroke marker is in a run.                                            *)
C26_EveryConnectionDrawn ==
    pc = "runs" =>
        \A e \in VerticalConnections :
            LET a == Row(RunGrid, e[1])[e[2] + 1]
                b == Row(RunGrid, e[1] + 1)[e[3] + 1]
            IN  \/ ConsecutiveInSomeRun(a, b)
                \/ a.partOfStrokedBox /\ b.partOfStrokedBox

--------------------------------------------------------------------------
(* The text nodes of render for rows with text inside and outside of       *)
(* walls: at most MaxTextRows rows of a catalogue of rows with no wall,    *)
(* one wall, two and three walls, with words before the first wall, after  *)
(* the last and between walls, and a box border.                           *)

MaxTextRows == 2

TextRows ==
    {<<"a","b">>,
     <<"a"," ","|"," ","b">>,
     <<"|"," ","a"," ","|">>,
     <<"a"," ","|"," ","b"," ","|"," ","c">>,
     <<"|"," ","b"," ","|"," ","c">>,
     <<"a","|","b","|","c","|","d">>,
     <<"|"," ","a"," ","b"," ","|">>,
     <<"+","-","-","-","+">>,
     <<"x"," ","+","-","+">>,
     <<"U2502"," ","r"," ","U2502"," ","s">>}

InitText ==
    /\ Idle
    /\ value = <<>>
    /\ text \in SeqsUpTo(TextRows, MaxTextRows)
    /\ text # <<>>

SpecText == InitText /\ [][Render]_vars

\* The grid render builds for the diagram, and its mode.
TextGrid == RenderGrid(text)
TextRich == detectRichMode(CleanLines(ParseDocument(text)))

\* A cell whose grapheme is text to be shown: not a space, not a wall, not
\* a suppressed ASCII connector, not a structural cell of a stroked box
\* perimeter, not an alignment marker.
IsTextCell(rowIndex, colIndex) ==
    LET cell == Row(TextGrid, rowIndex)[colIndex + 1] IN
    /\ cell.char # " "
    /\ ~IsWall(TextGrid, TextRich, rowIndex, colIndex)
    /\ ~isAsciiZoneConnector(TextGrid, TextRich, rowIndex, colIndex)
    /\ ~(cell.partOfStrokedBox /\ isStructure(cell.char, TextRich))
    /\ cell.char \notin {"^", "<", ">"}

\* The text nodes whose content holds the grapheme of a cell: those of its
\* row that begin at or before its column and reach it.
NodesShowing(rowIndex, colIndex) ==
    {n \in 1..Len(svg.texts) :
        /\ svg.texts[n].row = rowIndex
        /\ svg.texts[n].col <= colIndex
        /\ colIndex < svg.texts[n].col + Len(svg.texts[n].content)
        /\ svg.texts[n].content[colIndex - svg.texts[n].col + 1]
               = Row(TextGrid, rowIndex)[colIndex + 1].char}

(* C27: render loses no text: every non-space grapheme of a row that is    *)
(* not a wall, a suppressed ASCII connector, a cell of a stroked box       *)
(* perimeter or an alignment marker is in the content of exactly one text  *)
(* node, also when it stands left of the first or right of the last wall   *)
(* of a row with two or more walls.                                        *)
C27_NoTextLost ==
    pc = "rendered" =>
        \A rowIndex \in 0..(Len(TextGrid) - 1) :
            \A colIndex \in 0..(Len(Row(TextGrid, rowIndex)) - 1) :
                IsTextCell(rowIndex, colIndex) =>
                    Cardinality(NodesShowing(rowIndex, colIndex)) = 1

\* What remains of C27: text in a row with fewer than two walls, and text
\* between the first and the last wall of a row, is in exactly one node.
C27_TextBetweenWallsKept ==
    pc = "rendered" =>
        \A rowIndex \in 0..(Len(TextGrid) - 1) :
            LET walls == Walls(TextGrid, TextRich, rowIndex) IN
            \A colIndex \in 0..(Len(Row(TextGrid, rowIndex)) - 1) :
                (/\ IsTextCell(rowIndex, colIndex)
                 /\ \/ Len(walls) < 2
                    \/ colIndex > walls[1] /\ colIndex < walls[Len(walls)]) =>
                    Cardinality(NodesShowing(rowIndex, colIndex)) = 1

--------------------------------------------------------------------------
(* autoFormat on lines that carry style markers: at most MaxAttachRows     *)
(* rows of a catalogue with a border, and box rows with a colour or a      *)
(* background marker before and inside a word, with and without centring   *)
(* markers.                                                                *)

MaxAttachRows == 2

AttachRows ==
    {<<"+","-","-","-","-","-","-","-","-","+">>,
     <<"|","^","a","{","#","c","o","l","o","r",":","r","e","d","}","b","^","|">>,
     <<"|","^","{","#","c","o","l","o","r",":","r","e","d","}","a","b","^","|">>,
     <<"|"," ","{","#","c","o","l","o","r",":","r","e","d","}","a","b"," ","|">>,
     <<"|","{","#","b","g",":","#","e","e","e","}"," ","a","b"," ","|">>,
     <<"|"," ","a","{","#","c","o","l","o","r",":","r","e","d","}","b"," ","|">>,
     <<"|"," ","a","b"," ","|">>,
     <<"{","#","c","o","l","o","r",":","r","e","d","}","t","o","p">>}

InitAttach ==
    /\ Idle
    /\ value = <<>>
    /\ text \in SeqsUpTo(AttachRows, MaxAttachRows)
    /\ text # <<>>

SpecAttach == InitAttach /\ [][AutoFormat]_vars

\* The number of visible (non-space) graphemes of a clean line that stand
\* before a marker index.
VisibleUpTo(cleanLine, index) ==
    Cardinality({k \in 1..Len(cleanLine) : k <= index /\ cleanLine[k] # " "})

(* C28: autoFormat keeps every valid style marker attached to the same     *)
(* visible text: a line of the output carries the markers of the input     *)
(* line, each immediately before the same visible grapheme as in the       *)
(* input, also when the centring rule has re-padded the line.              *)
C28_MarkersStayAttached ==
    pc = "formatted" =>
        /\ Len(formatted) = Len(text)
        /\ \A i \in 1..Len(text) :
              LET in  == parseLineMarkers(text[i])
                  out == parseLineMarkers(formatted[i])
              IN  /\ Len(out.markers) = Len(in.markers)
                  /\ \A k \in 1..Len(in.markers) :
                        /\ out.markers[k].key = in.markers[k].key
                        /\ out.markers[k].value = in.markers[k].value
                        /\ VisibleUpTo(out.cleanLine, out.markers[k].index)
                               = VisibleUpTo(in.cleanLine, in.markers[k].index)

\* What remains of C28: the output line carries the same markers, in the
\* same order, at the same index of the clean line.
C28_MarkersKeepIndex ==
    pc = "formatted" =>
        \A i \in 1..Len(text) :
            LET in  == parseLineMarkers(text[i])
                out == parseLineMarkers(formatted[i])
            IN  out.markers = in.markers

--------------------------------------------------------------------------
(* detectRectangularBoxes and findSmallestEnclosingBox on diagrams with    *)
(* boxes inside, above and across one another: at most MaxNestRows rows    *)
(* of a catalogue with a border, the border and the row of an inner box,   *)
(* and a row of corner glyphs.                                             *)

MaxNestRows == 5

NestRows ==
    {<<"+","-","-","-","+">>,
     <<"|","+","-","+","|">>,
     <<"|","|"," ","|","|">>,
     <<"+","+","+","+","+">>}

\* findSmallestEnclosingBox(boxes, row, col) for a cell of the diagram.
EncloseCell ==
    /\ pc = "boxes"
    /\ \E row \in 0..(Len(text) - 1) :
       \E col \in 0..(Len(text[row + 1]) - 1) :
           /\ cursor' = <<row, col>>
           /\ enclosingBox' = findSmallestEnclosingBox(foundBoxes, row, col)
    /\ pc' = "enclosed"
    /\ UNCHANGED <<text, value, safe, parsed, reparsed, injected, svg, formatted, document,
                   neighbor, foundRuns, foundBoxes>>

InitNest ==
    /\ Idle
    /\ value = <<>>
    /\ text \in SeqsUpTo(NestRows, MaxNestRows)
    /\ text # <<>>

SpecNest == InitNest /\ [][DetectBoxes \/ EncloseCell]_vars

\* The rectangle of box a contains the rectangle of box b.
ContainsBox(a, b) ==
    a.top <= b.top /\ a.left <= b.left /\ a.bottom >= b.bottom /\ a.right >= b.right

\* Two boxes strictly enclose a common cell of the diagram.
EncloseCommonCell(a, b) ==
    \E row \in 0..(Len(text) - 1) :
        \E col \in 0..(Len(text[row + 1]) - 1) :
            Encloses(a, row, col) /\ Encloses(b, row, col)

\* The detected boxes that enclose the cell at the cursor.
EnclosingCursor == {b \in 1..Len(foundBoxes) : Encloses(foundBoxes[b], cursor[1], cursor[2])}

\* The C29 statement as it stands: any two detected boxes that enclose a
\* common cell are nested.
C29_EnclosingBoxesNested ==
    pc \in {"boxes", "enclosed"} =>
        \A j \in 1..Len(foundBoxes), k \in 1..Len(foundBoxes) :
            EncloseCommonCell(foundBoxes[j], foundBoxes[k]) =>
                \/ ContainsBox(foundBoxes[j], foundBoxes[k])
                \/ ContainsBox(foundBoxes[k], foundBoxes[j])

(* C29: any two detected boxes that strictly enclose a common cell are     *)
(* nested or stand between the same two columns; among the boxes that      *)
(* enclose a cell the one of least area is unique and contained in all     *)
(* the others, and it is the one findSmallestEnclosingBox returns, so the  *)
(* result does not depend on the order of detection.                       *)
C29_EnclosingBoxesNestedOrStacked ==
    /\ pc \in {"boxes", "enclosed"} =>
          \A j \in 1..Len(foundBoxes), k \in 1..Len(foundBoxes) :
              EncloseCommonCell(foundBoxes[j], foundBoxes[k]) =>
                  \/ ContainsBox(foundBoxes[j], foundBoxes[k])
                  \/ ContainsBox(foundBoxes[k], foundBoxes[j])
                  \/ /\ foundBoxes[j].left = foundBoxes[k].left
                     /\ foundBoxes[j].right = foundBoxes[k].right
    /\ pc = "enclosed" =>
          /\ EnclosingCursor = {} <=> enclosingBox = 0
          /\ EnclosingCursor # {} =>
                /\ enclosingBox \in EnclosingCursor
                /\ \A o \in EnclosingCursor \ {enclosingBox} :
                      /\ foundBoxes[enclosingBox].area < foundBoxes[o].area
                      /\ ContainsBox(foundBoxes[o], foundBoxes[enclosingBox])

\* Two borders above an inner row and two below it: the boxes of rows 0 to
\* 3 and of rows 1 to 4 enclose the cell in the middle and neither contains
\* the other; the box of rows 1 to 3 is the smallest around that cell.
C29_Witness ==
    /\ pc = "enclosed"
    /\ text = <<<<"+","-","-","-","+">>, <<"+","-","-","-","+">>, <<"|","|"," ","|","|">>,
                <<"+","-","-","-","+">>, <<"+","-","-","-","+">>>>
    /\ cursor = <<2, 2>>
    /\ Cardinality(EnclosingCursor) = 4
    /\ \E j \in EnclosingCursor, k \in EnclosingCursor :
          /\ foundBoxes[j].top = 0 /\ foundBoxes[j].bottom = 3
          /\ foundBoxes[k].top = 1 /\ foundBoxes[k].bottom = 4
    /\ enclosingBox # 0
    /\ foundBoxes[enclosingBox].top = 1 /\ foundBoxes[enclosingBox].bottom = 3

--------------------------------------------------------------------------
(* The widths of the lines autoFormat returns, on the documents of         *)
(* SpecRules.                                                              *)

\* The display width of the marker-stripped line i of the output.
FormattedWidth(i) ==
    getTextDisplayWidth(parseLineMarkers(formatted[i]).cleanLine, RuleRich)

(* C30: autoFormat returns as many lines as it was given; the display      *)
(* width of a non-blank line of the output, markers stripped, is either    *)
(* that of the input line or exactly the greatest width of its block: no   *)
(* line is shortened or made wider than its block, and the greatest width  *)
(* of the block is unchanged.                                              *)
C30_WidthBound ==
    pc = "formatted" =>
        /\ Len(formatted) = Len(text)
        /\ \A i \in 1..Len(text) :
              ~IsBlankLine(i) =>
                  /\ FormattedWidth(i) \in {LineWidth(i), BlockMax(i)}
                  /\ FormattedWidth(i) >= LineWidth(i)
                  /\ FormattedWidth(i) <= BlockMax(i)
                  /\ \E j \in 1..Len(text) :
                        SameBlock(i, j) /\ FormattedWidth(j) = BlockMax(i)


\* A box row under a wider border is filled to the width of the border,
\* and the border keeps its width.
C30_Witness ==
    /\ pc = "formatted"
    /\ text = <<<<"+", "-", "-", "-", "-", "-", "-", "-", "-", "-", "-", "+">>,
                <<"|", " ", "B", "o", "x", " ", "|">>>>
    /\ LineWidth(2) = 7
    /\ BlockMax(2) = 12
    /\ FormattedWidth(2) = 12
    /\ FormattedWidth(1) = LineWidth(1)

\* A row with no right wall under a wider border keeps its own width.
C30_WitnessUnchanged ==
    /\ pc = "formatted"
    /\ text = <<<<"+", "-", "-", "-", "-", "-", "-", "-", "-", "-", "-", "+">>,
                <<"|", " ", "B", "o", "x">>>>
    /\ BlockMax(2) = 12
    /\ FormattedWidth(2) = 5

==========================================================================
